---------------------------- MODULE Spec2Model ----------------------------
(***************************************************************************)
(* Model of the DownloadManager of yt-dlp/src/fetcher/download_manager.rs. *)
(* Every action is one critical section of the code (one lock().await      *)
(* block, together with the synchronous code that follows it up to the     *)
(* next await), so that the interleavings of enqueue, cancel, the consumer *)
(* loops spawned by process_queue and the spawned transfers are those of a *)
(* multi-threaded tokio runtime.                                           *)
(*                                                                         *)
(* The module also models the Fetcher of yt-dlp/src/fetcher/mod.rs: the    *)
(* range computation of fetch_asset (specification SpecRanges) and a whole *)
(* fetch against a destination file, its .parts file and a server          *)
(* (specification SpecFetch).  Each specification moves the variables of   *)
(* one component and leaves those of the others at their parked values.    *)
(*                                                                         *)
(* The caches of yt-dlp/src/cache/mod.rs are modelled too: VideoCache, the *)
(* SQLite table videos behind get, put, remove, clean and get_by_id        *)
(* (specification SpecVideoCache), and DownloadCache, the tables files and *)
(* thumbnails together with the blobs under the cache directory            *)
(* (specification SpecDownloadCache).  Time is counted in seconds on a     *)
(* clock that only moves forward, and u64 values are TimeBits wide.        *)
(* SpecCacheReads follows the reads of both caches, SpecConcurrentPut the  *)
(* put_file calls of several tasks between their awaits, and SpecFair is   *)
(* the DownloadManager under the fairness of the runtime's scheduling.     *)
(***************************************************************************)
EXTENDS Integers, FiniteSets, Sequences, TLC

\* ---------------------------------------------------------------- bounds
\* number of enqueue calls explored (ids 0 .. MaxTasks-1 are handed out)
MaxTasks == 2
\* largest max_concurrent_downloads configuration explored
MaxCap == 2
\* largest content length explored, counted in MiB
MaxSize == 12
\* largest segment_size explored by the range computation, in MiB
MaxSegSize == 6
\* largest retry_attempts configuration explored
MaxRetry == 3
\* number of fetch_asset calls made on the one destination
MaxFetches == 2
\* width in bits of the unsigned integers of the caches (u64 in the code)
TimeBits == 3
\* last second the clock reaches
MaxNow == 2
\* last second the clock reaches while the DownloadCache is used
MaxDownloadNow == 1
\* number of tasks that call put_file concurrently
MaxPutTasks == 2

\* ------------------------------------------------------ program constants
\* DownloadPriority discriminants (download_manager.rs:20-29)
Low == 0
Normal == 1
High == 2
Critical == 3
Priorities == {Low, Normal, High, Critical}

\* Fetcher::new (fetcher/mod.rs:69-70): parallel_segments, and
\* segment_size in MiB
DefaultParallelSegments == 4
DefaultSegmentSize == 5

Ids == 0 .. (MaxTasks - 1)
\* an id no enqueue ever returns
UnknownId == MaxTasks
CancelIds == Ids \cup {UnknownId}

\* DownloadStatus (download_manager.rs:137-156); "Absent" is a missing key
Terminal == {"Completed", "Failed", "Canceled"}
StatusValues == {"Absent", "Queued", "Downloading"} \cup Terminal

VARIABLES
    max_concurrent_downloads, \* config.max_concurrent_downloads
    next_id,                  \* the id counter
    queue,                    \* ids of the tasks in the BinaryHeap
    priority,                 \* priority[id]: DownloadTask.priority of a
                              \* task not yet popped (Normal once dropped)
    semaphore,                \* permits available in the semaphore
    statuses,                 \* statuses[id], "Absent" when no key
    tasks,                    \* ids that have a JoinHandle in the map
    epc,                      \* epc[id]: position of the enqueue call of id
    lpc,                      \* lpc[l]: position of the consumer loop l
    cur,                      \* cur[l]: id of the task loop l popped and
                              \* has not yet stored the handle of (-1: none)
    xfer,                     \* xfer[id]: state of the spawned transfer
    aborted,                  \* live transfers whose handle was aborted
    invoked,                  \* ids whose progress callback was invoked
    cpc, cid, cres,           \* the cancel call: position, argument, result
    cstart,                   \* status of cid when the cancel call began
    cwrote,                   \* did the cancel call change the manager
    canceledQueued,           \* ids for which cancel returned true (queue)
    canceledRunning           \* ids for which cancel returned true (handle)

vars == << max_concurrent_downloads, next_id, queue, priority, semaphore,
           statuses, tasks, epc, lpc, cur, xfer, aborted, invoked,
           cpc, cid, cres, cstart, cwrote, canceledQueued, canceledRunning >>

cancelVars == << cpc, cid, cres, cstart, cwrote, canceledQueued,
                 canceledRunning >>

\* ------------------------------------------- variables of the Fetcher
VARIABLES
    rS, rZ,                   \* range computation: content_length and
                              \* segment_size given to fetch_asset
    rOut,                     \* the ranges vector it built
    rDone                     \* has the loop of lines 267-271 run

VARIABLES
    now,                      \* SystemTime::now() in seconds since the epoch
    overflow_checks,          \* the build: TRUE when integer overflow
                              \* panics (debug), FALSE when it wraps
    video_ttl,                \* VideoCache.ttl
    videos,                   \* table videos: its rows in rowid order
    video_poisoned,           \* VideoCache.connection: a holder of the
                              \* mutex panicked
    lastPut,                  \* lastPut[url]: the video and the time of
                              \* the last put under url that no remove of
                              \* url followed, << >> when there is none
    vres                      \* the last VideoCache call and its result

videoVars == << now, overflow_checks, video_ttl, videos, video_poisoned,
               lastPut, vres >>

VARIABLES
    download_ttl,             \* DownloadCache.ttl
    files_dir,                \* does <cache_dir>/files exist
    blobs,                    \* the relative paths of the files that
                              \* exist under cache_dir
    files,                    \* table files: its rows in rowid order
    thumbnails,               \* table thumbnails: its rows in rowid order
    download_poisoned,        \* DownloadCache.connection: a holder of the
                              \* mutex panicked
    dres                      \* the last DownloadCache call and its result

downloadVars == << download_ttl, files_dir, blobs, files, thumbnails,
                   download_poisoned, dres >>

\* the clock and the build, which both caches read
clockVars == << now, overflow_checks >>

VARIABLES
    put_pc,                   \* put_pc[p]: where the put_file call of task
                              \* p stands between its awaits
    put_bytes                 \* put_bytes[p]: the bytes of its source file

putVars == << put_pc, put_bytes >>

VARIABLES
    remoteLen, remoteVer,     \* the resource behind the url: its length
                              \* and which edition of it is served
    destExists, dest,         \* the destination file: dest[k] is its
                              \* k-th MiB, 0 for a run of zero bytes
    partsExists, parts,       \* <destination>.parts: the indices it lists
    retry_attempts,           \* Fetcher.retry_attempts
    nfetch,                   \* fetch_asset calls made so far
    fpc,                      \* position of the running fetch_asset call
    fres,                     \* what it returned
    fpath,                    \* which way through fetch_asset it took
    head,                     \* the HEAD response it got
    ranges,                   \* its ranges vector
    downloaded_segments,      \* indices whose flag is true
    spc,                      \* spc[i]: position of the future of segment i
    attempt,                  \* attempt[i]: loop variable of line 343
    gets,                     \* gets[i]: ranged GETs sent for segment i
    parallel_count,           \* argument of buffer_unordered
    downloaded_bytes,         \* the progress counter
    total_bytes,              \* the total given to the callback
    fileLock,                 \* segment holding the file mutex, -1: free
    cbLast,                   \* arguments of the last callback invocation
                              \* of this call, << >> before the first
    getCount,                 \* GET requests this call has sent
    append_mode, chunk,       \* simple path: append_mode, and the number
                              \* of the next MiB of the body to arrive
    startExists, startDest,   \* the destination when this call began
    startParts,               \* the indices .parts listed when it began
    interrupted,              \* the destination is what a killed segmented
                              \* fetch of the current resource left
    startInterrupted          \* interrupted, when this call began

fetchVars == << remoteLen, remoteVer, destExists, dest, partsExists, parts,
                retry_attempts, nfetch, fpc, fres, fpath, head, ranges,
                downloaded_segments, spc, attempt, gets, parallel_count,
                downloaded_bytes, total_bytes, fileLock, cbLast, getCount,
                append_mode, chunk, startExists, startDest, startParts,
                interrupted, startInterrupted >>

\* the variables of one fetch_asset call
callVars == << fpath, head, ranges, downloaded_segments, spc, attempt, gets,
               parallel_count, downloaded_bytes, total_bytes, fileLock,
               cbLast, getCount, append_mode, chunk, startExists, startDest,
               startParts, startInterrupted >>

\* the files and the server
worldVars == << remoteLen, remoteVer, destExists, dest, partsExists, parts >>

rangeVars == << rS, rZ, rOut, rDone >>

\* the range computation before any input is drawn
RangesParked ==
    /\ rS = 0
    /\ rZ = 1
    /\ rOut = << >>
    /\ rDone = FALSE

\* a HEAD response: ok is false when the request failed; content_length
\* is << >> when the header is missing and << n >> when it says n
NoHead == [ok |-> FALSE, accept_ranges |-> FALSE, content_length |-> << >>]

\* no fetch_asset call is running
NoCall ==
    /\ fpath = "none"
    /\ head = NoHead
    /\ ranges = << >>
    /\ downloaded_segments = {}
    /\ spc = << >>
    /\ attempt = << >>
    /\ gets = << >>
    /\ parallel_count = 0
    /\ downloaded_bytes = 0
    /\ total_bytes = 0
    /\ fileLock = -1
    /\ cbLast = << >>
    /\ getCount = 0
    /\ append_mode = FALSE
    /\ chunk = 0
    /\ startExists = FALSE
    /\ startDest = << >>
    /\ startParts = {}
    /\ startInterrupted = FALSE

\* a Fetcher that is never used, no destination and an empty resource
FetcherParked ==
    /\ remoteLen = 0
    /\ remoteVer = 1
    /\ destExists = FALSE
    /\ dest = << >>
    /\ partsExists = FALSE
    /\ parts = {}
    /\ retry_attempts = 1
    /\ nfetch = 0
    /\ fpc = "idle"
    /\ fres = "none"
    /\ interrupted = FALSE
    /\ NoCall

\* the keys of the VideoCache: the urls given to get, put and remove
Urls == {"k1", "k2"}
\* no call of the cache has been made
NoResult == [op |-> "none", key |-> "", status |-> "none", video |-> << >>]

\* a VideoCache that is never used
VideoCacheParked ==
    /\ now = 0
    /\ overflow_checks = FALSE
    /\ video_ttl = 0
    /\ videos = << >>
    /\ video_poisoned = FALSE
    /\ lastPut = [u \in Urls |-> << >>]
    /\ vres = NoResult

\* no call of the DownloadCache has been made
NoDownloadResult ==
    [op |-> "none", status |-> "none", entry |-> << >>, copied |-> FALSE,
     branch |-> ""]

\* the tasks that call put_file concurrently
PutTasks == 1 .. MaxPutTasks

\* no put_file call is under way
PutsParked ==
    /\ put_pc = [p \in PutTasks |-> "idle"]
    /\ put_bytes = [p \in PutTasks |-> "x"]

\* a DownloadCache that is never used
DownloadCacheParked ==
    /\ PutsParked
    /\ download_ttl = 0
    /\ files_dir = FALSE
    /\ blobs = {}
    /\ files = << >>
    /\ thumbnails = << >>
    /\ download_poisoned = FALSE
    /\ dres = NoDownloadResult

\* what the DownloadManager's own steps leave alone
outsideManager == << rangeVars, fetchVars, videoVars, downloadVars,
                    putVars >>
\* what the range computation leaves alone
outsideRanges == << vars, fetchVars, videoVars, downloadVars, putVars >>
\* what a fetch_asset call leaves alone
outsideFetcher == << vars, rangeVars, videoVars, downloadVars, putVars >>
\* what a VideoCache call leaves alone
outsideVideoCache == << vars, rangeVars, fetchVars, downloadVars, putVars >>
\* what a DownloadCache call leaves alone
outsideDownloadCache == << vars, rangeVars, fetchVars, video_ttl, videos,
                           video_poisoned, lastPut, vres, putVars >>

\* ---------------------------------------------------------------- helpers
\* the priority arguments passed to enqueue, an Option<DownloadPriority>:
\* << >> is None, << p >> is Some(p)
PriorityInputs == {<< >>, << Low >>, << Critical >>}

\* priority.unwrap_or(DownloadPriority::Normal)
UnwrapPriority(p) == IF p = << >> THEN Normal ELSE p[1]

\* Ord::cmp of DownloadTask: -1 Less, 0 Equal, 1 Greater
IntCmp(a, b) == IF a < b THEN -1 ELSE IF a > b THEN 1 ELSE 0

Cmp(a, b) ==
    LET priority_cmp == IntCmp(priority[b], priority[a])
    IN  IF priority_cmp # 0 THEN priority_cmp ELSE IntCmp(a, b)

\* BinaryHeap::pop returns the greatest element of the heap
HeapMax(q) == CHOOSE t \in q : \A u \in q : Cmp(t, u) >= 0

\* a rebuild that keeps the task it should drop
KeepTaskInverted(t, id) == t = id

\* the filter of cancel's rebuild of the queue
KeepTask(t, id) == t # id

Drain(q, id) == {t \in q : KeepTask(t, id)}

\* an acquire that never waits
CanAcquireAlways(permits) == TRUE

\* Semaphore::acquire_owned completes when a permit is available
CanAcquire(permits) == permits > 0

\* a pop that leaves the task in the heap
PopKeepsTask(q) ==
    IF q = {} THEN << -1, q >> ELSE << HeapMax(q), q >>

\* queue.pop(), line 427: << the task popped (-1 for None), the heap left >>
Pop(q) ==
    IF q = {} THEN << -1, q >> ELSE << HeapMax(q), q \ {HeapMax(q)} >>

\* a permit that is never given back
DropPermitLeaked(permits) == permits

\* dropping an OwnedSemaphorePermit (line 434, or the end of the task that
\* owns _permit, line 498) gives the permit back to the semaphore
DropPermit(permits) == permits + 1

\* transfers that hold a permit: spawned, not finished, not dropped
Live == {"running", "removing"}
InFlight == {id \in Ids : xfer[id] \in Live}

ActiveLoops == {l \in Ids : lpc[l] # "none"}

\* The transfer's completion handler keeps its guard on the statuses mutex
\* (line 504) until the end of its block, that is across its wait for the
\* tasks mutex (line 520); every other guard is dropped within one action.
StatusesUnlocked == \A id \in Ids : xfer[id] # "removing"

\* one iteration of wait_for_completion: the value returned, or "sleep"
Poll(id) ==
    IF statuses[id] = "Absent" THEN "None"
    ELSE IF statuses[id] \in Terminal THEN statuses[id]
    ELSE "sleep"

\* ------------------------------------------------------------------- Init
\* DownloadManager::with_config, before any call
ManagerInit ==
    /\ max_concurrent_downloads \in 1 .. MaxCap
    /\ next_id = 0
    /\ queue = {}
    /\ priority = [i \in Ids |-> Normal]
    /\ semaphore = max_concurrent_downloads
    /\ statuses = [i \in CancelIds |-> "Absent"]
    /\ tasks = {}
    /\ epc = [i \in Ids |-> "none"]
    /\ lpc = [i \in Ids |-> "none"]
    /\ cur = [i \in Ids |-> -1]
    /\ xfer = [i \in Ids |-> "none"]
    /\ aborted = {}
    /\ invoked = {}
    /\ cpc = "idle"
    /\ cid = -1
    /\ cres = "none"
    /\ cstart = "Absent"
    /\ cwrote = FALSE
    /\ canceledQueued = {}
    /\ canceledRunning = {}

\* a manager that is never used: the state the Fetcher specifications
\* keep the manager's variables in
ManagerParked ==
    /\ ManagerInit
    /\ max_concurrent_downloads = 1

Init ==
    /\ ManagerInit
    /\ RangesParked
    /\ FetcherParked
    /\ VideoCacheParked
    /\ DownloadCacheParked

\* ---------------------------------------------------------------- enqueue
\* enqueue, lines 227-238: take the next id, build the task
EnqueueId(p) ==
    /\ next_id < MaxTasks
    /\ epc[next_id] = "none"
    /\ priority' = [priority EXCEPT ![next_id] = UnwrapPriority(p)]
    /\ epc' = [epc EXCEPT ![next_id] = "push"]
    /\ next_id' = next_id + 1
    /\ UNCHANGED outsideManager
    /\ UNCHANGED << max_concurrent_downloads, queue, semaphore, statuses,
                    tasks, lpc, cur, xfer, aborted, invoked, cancelVars >>

\* enqueue, lines 240-244: push the task
EnqueuePush(id) ==
    /\ epc[id] = "push"
    /\ queue' = queue \cup {id}
    /\ epc' = [epc EXCEPT ![id] = "status"]
    /\ UNCHANGED outsideManager
    /\ UNCHANGED << max_concurrent_downloads, next_id, priority, semaphore,
                    statuses, tasks, lpc, cur, xfer, aborted, invoked,
                    cancelVars >>

\* enqueue, lines 246-255: write Queued, process_queue() spawns a consumer
\* loop (lines 409-416), return the id
EnqueueStatus(id) ==
    /\ epc[id] = "status"
    /\ StatusesUnlocked
    /\ statuses' = [statuses EXCEPT ![id] = "Queued"]
    /\ lpc' = [lpc EXCEPT ![id] = "acquire"]
    /\ epc' = [epc EXCEPT ![id] = "done"]
    /\ UNCHANGED outsideManager
    /\ UNCHANGED << max_concurrent_downloads, next_id, queue, priority,
                    semaphore, tasks, cur, xfer, aborted, invoked,
                    cancelVars >>

\* ---------------------------------------------------------- consumer loop
\* process_queue, lines 418-422: acquire a permit
LoopAcquire(l) ==
    /\ lpc[l] = "acquire"
    /\ CanAcquire(semaphore)
    /\ semaphore' = semaphore - 1
    /\ lpc' = [lpc EXCEPT ![l] = "pop"]
    /\ UNCHANGED outsideManager
    /\ UNCHANGED << max_concurrent_downloads, next_id, queue, priority,
                    statuses, tasks, epc, cur, xfer, aborted, invoked,
                    cancelVars >>

\* process_queue, lines 424-437: pop; on an empty queue drop the permit
LoopPop(l) ==
    /\ lpc[l] = "pop"
    /\ IF Pop(queue)[1] = -1
       THEN /\ semaphore' = DropPermit(semaphore)
            /\ lpc' = [lpc EXCEPT ![l] = "none"]
            /\ UNCHANGED << queue, cur, priority >>
       ELSE /\ cur' = [cur EXCEPT ![l] = Pop(queue)[1]]
            /\ queue' = Pop(queue)[2]
            /\ priority' = [priority EXCEPT ![Pop(queue)[1]] = Normal]
            /\ lpc' = [lpc EXCEPT ![l] = "mark"]
            /\ UNCHANGED semaphore
    /\ UNCHANGED outsideManager
    /\ UNCHANGED << max_concurrent_downloads, next_id, statuses,
                    tasks, epc, xfer, aborted, invoked, cancelVars >>

\* process_queue, lines 439-524: write Downloading, build the fetcher and
\* spawn the transfer, which owns the permit
LoopMark(l) ==
    /\ lpc[l] = "mark"
    /\ StatusesUnlocked
    /\ statuses' = [statuses EXCEPT ![cur[l]] = "Downloading"]
    /\ xfer' = [xfer EXCEPT ![cur[l]] = "running"]
    /\ lpc' = [lpc EXCEPT ![l] = "store"]
    /\ UNCHANGED outsideManager
    /\ UNCHANGED << max_concurrent_downloads, next_id, queue, priority,
                    semaphore, tasks, epc, cur, aborted, invoked,
                    cancelVars >>

\* process_queue, lines 526-530: store the handle
LoopStore(l) ==
    /\ lpc[l] = "store"
    /\ tasks' = tasks \cup {cur[l]}
    /\ cur' = [cur EXCEPT ![l] = -1]
    /\ lpc' = [lpc EXCEPT ![l] = "check"]
    /\ UNCHANGED outsideManager
    /\ UNCHANGED << max_concurrent_downloads, next_id, queue, priority,
                    semaphore, statuses, epc, xfer, aborted, invoked,
                    cancelVars >>

\* process_queue, lines 532-540: leave when the queue is empty
LoopCheck(l) ==
    /\ lpc[l] = "check"
    /\ lpc' = [lpc EXCEPT ![l] = IF queue = {} THEN "none" ELSE "acquire"]
    /\ UNCHANGED outsideManager
    /\ UNCHANGED << max_concurrent_downloads, next_id, queue, priority,
                    semaphore, statuses, tasks, epc, cur, xfer, aborted,
                    invoked, cancelVars >>

\* --------------------------------------------------------------- transfer
\* the status recorded for a result of fetch_asset, lines 505-517
ResultStatus(res) == IF res = "Ok" THEN "Completed" ELSE "Failed"

\* transfer, lines 501-517: fetch_asset returned without a progress tick
\* (destination already complete, empty body, or an error); lock the
\* statuses and record the result
TransferFinish(id, res) ==
    /\ xfer[id] = "running"
    /\ StatusesUnlocked
    /\ statuses' = [statuses EXCEPT ![id] = ResultStatus(res)]
    /\ xfer' = [xfer EXCEPT ![id] = "removing"]
    /\ UNCHANGED outsideManager
    /\ UNCHANGED << max_concurrent_downloads, next_id, queue, priority,
                    semaphore, tasks, epc, lpc, cur, aborted, invoked,
                    cancelVars >>

\* transfer, lines 519-524: remove the handle, end: the statuses guard and
\* the permit are dropped
TransferRemove(id) ==
    /\ xfer[id] = "removing"
    /\ tasks' = tasks \ {id}
    /\ xfer' = [xfer EXCEPT ![id] = "done"]
    /\ aborted' = aborted \ {id}
    /\ semaphore' = DropPermit(semaphore)
    /\ UNCHANGED outsideManager
    /\ UNCHANGED << max_concurrent_downloads, next_id, queue, priority,
                    statuses, epc, lpc, cur, invoked, cancelVars >>

\* progress callback, lines 462-488, called by the fetcher from the
\* transfer's async task: Mutex::blocking_lock panics inside the runtime,
\* before the insert; the task unwinds and its permit is dropped
TransferTick(id) ==
    /\ xfer[id] = "running"
    /\ invoked' = invoked \cup {id}
    /\ xfer' = [xfer EXCEPT ![id] = "panicked"]
    /\ aborted' = aborted \ {id}
    /\ semaphore' = DropPermit(semaphore)
    /\ UNCHANGED outsideManager
    /\ UNCHANGED << max_concurrent_downloads, next_id, queue, priority,
                    statuses, tasks, epc, lpc, cur, cancelVars >>

\* an aborted task is dropped at its next yield, with what it owns: the
\* permit and, if it holds it, the statuses guard
TransferDrop(id) ==
    /\ id \in aborted
    /\ xfer[id] \in Live
    /\ xfer' = [xfer EXCEPT ![id] = "aborted"]
    /\ aborted' = aborted \ {id}
    /\ semaphore' = DropPermit(semaphore)
    /\ UNCHANGED outsideManager
    /\ UNCHANGED << max_concurrent_downloads, next_id, queue, priority,
                    statuses, tasks, epc, lpc, cur, invoked, cancelVars >>

\* ----------------------------------------------------------------- cancel
\* JoinHandle::abort has an effect only on a task that has not ended
Abort(set, id) == IF xfer[id] \in Live THEN set \cup {id} ELSE set

\* cancel, lines 336-343: remove the handle and abort it if there was one
CancelBegin(id) ==
    /\ cpc = "idle"
    /\ IF id \in Ids THEN epc[id] = "done" ELSE TRUE
    /\ cid' = id
    /\ cstart' = statuses[id]
    /\ tasks' = tasks \ {id}
    /\ IF id \in tasks
       THEN /\ aborted' = Abort(aborted, id)
            /\ cpc' = "handle"
            /\ cwrote' = TRUE
       ELSE /\ cpc' = "queue"
            /\ cwrote' = FALSE
            /\ UNCHANGED aborted
    /\ UNCHANGED outsideManager
    /\ UNCHANGED << max_concurrent_downloads, next_id, queue, priority,
                    semaphore, statuses, epc, lpc, cur, xfer, invoked,
                    cres, canceledQueued, canceledRunning >>

\* cancel, lines 345-349: write Canceled, return true
CancelHandle ==
    /\ cpc = "handle"
    /\ StatusesUnlocked
    /\ statuses' = [statuses EXCEPT ![cid] = "Canceled"]
    /\ cres' = "true"
    /\ cpc' = "ret"
    /\ canceledRunning' = IF cstart = "Downloading"
                          THEN canceledRunning \cup {cid}
                          ELSE canceledRunning
    /\ UNCHANGED outsideManager
    /\ UNCHANGED << max_concurrent_downloads, next_id, queue, priority,
                    semaphore, tasks, epc, lpc, cur, xfer, aborted, invoked,
                    cid, cstart, cwrote, canceledQueued >>

\* cancel, lines 352-378: rebuild the queue without id; return false when
\* nothing was removed
CancelQueue ==
    /\ cpc = "queue"
    /\ queue' = Drain(queue, cid)
    /\ priority' = [i \in Ids |-> IF i \in queue \ Drain(queue, cid)
                                  THEN Normal ELSE priority[i]]
    /\ IF Cardinality(queue) > Cardinality(Drain(queue, cid))
       THEN /\ cpc' = "markQ"
            /\ cwrote' = TRUE
            /\ UNCHANGED cres
       ELSE /\ cpc' = "ret"
            /\ cres' = "false"
            /\ UNCHANGED cwrote
    /\ UNCHANGED outsideManager
    /\ UNCHANGED << max_concurrent_downloads, next_id, semaphore,
                    statuses, tasks, epc, lpc, cur, xfer, aborted, invoked,
                    cid, cstart, canceledQueued, canceledRunning >>

\* cancel, lines 371-376: write Canceled, return true
CancelMarkQueued ==
    /\ cpc = "markQ"
    /\ StatusesUnlocked
    /\ statuses' = [statuses EXCEPT ![cid] = "Canceled"]
    /\ cres' = "true"
    /\ cpc' = "ret"
    /\ canceledQueued' = canceledQueued \cup {cid}
    /\ UNCHANGED outsideManager
    /\ UNCHANGED << max_concurrent_downloads, next_id, queue, priority,
                    semaphore, tasks, epc, lpc, cur, xfer, aborted, invoked,
                    cid, cstart, cwrote, canceledRunning >>

\* the caller has the result; the call's bookkeeping is forgotten
CancelReturn ==
    /\ cpc = "ret"
    /\ cpc' = "idle"
    /\ cid' = -1
    /\ cres' = "none"
    /\ cstart' = "Absent"
    /\ cwrote' = FALSE
    /\ UNCHANGED outsideManager
    /\ UNCHANGED << max_concurrent_downloads, next_id, queue, priority,
                    semaphore, statuses, tasks, epc, lpc, cur, xfer, aborted,
                    invoked, canceledQueued, canceledRunning >>

\* ------------------------------------------------------------------- Next
Next ==
    \/ \E p \in PriorityInputs : EnqueueId(p)
    \/ \E id \in Ids : EnqueuePush(id)
    \/ \E id \in Ids : EnqueueStatus(id)
    \/ \E l \in Ids : LoopAcquire(l)
    \/ \E l \in Ids : LoopPop(l)
    \/ \E l \in Ids : LoopMark(l)
    \/ \E l \in Ids : LoopStore(l)
    \/ \E l \in Ids : LoopCheck(l)
    \/ \E id \in Ids, res \in {"Ok", "Err"} : TransferFinish(id, res)
    \/ \E id \in Ids : TransferRemove(id)
    \/ \E id \in Ids : TransferTick(id)
    \/ \E id \in Ids : TransferDrop(id)
    \/ \E id \in CancelIds : CancelBegin(id)
    \/ CancelHandle
    \/ CancelQueue
    \/ CancelMarkQueued
    \/ CancelReturn

Spec == Init /\ [][Next]_vars

TypeOK ==
    /\ next_id \in 0 .. MaxTasks
    /\ queue \subseteq Ids
    /\ tasks \subseteq Ids
    /\ semaphore \in 0 .. max_concurrent_downloads
    /\ \A i \in CancelIds : statuses[i] \in StatusValues
    /\ \A i \in Ids : priority[i] \in Priorities

\* ===================================================================
\* Properties
\* ===================================================================

\* t is the task the documented order dispatches first among q: the
\* highest priority, and among equal priorities the smallest id
IsBest(t, q) ==
    \A u \in q : \/ priority[t] > priority[u]
                 \/ priority[t] = priority[u] /\ t <= u

\* C1: whenever a consumer loop pops a task, that task has the highest
\* priority of all tasks queued at that moment, and the smallest id among
\* those of that priority.
C1_PopsHighestPriorityOldest ==
    [][\A l \in Ids : (lpc[l] = "pop" /\ lpc'[l] = "mark")
                          => IsBest(cur'[l], queue)]_vars

\* C2: the number of transfers in flight (spawned, neither finished nor
\* dropped) never exceeds max_concurrent_downloads.
C2_InFlightBounded == Cardinality(InFlight) <= max_concurrent_downloads

\* the cap is reached while a task is still waiting in the queue
C2_Witness ==
    /\ Cardinality(InFlight) = max_concurrent_downloads
    /\ queue # {}
    /\ \E l \in Ids : lpc[l] = "acquire"

\* C3: at most one consumer loop is running at any moment.
C3_SingleConsumer == Cardinality(ActiveLoops) <= 1

\* C4: once the status of an id is Completed, Failed or Canceled, no step
\* replaces it.
C4_TerminalAbsorbing ==
    [][\A id \in Ids : statuses[id] \in Terminal
                          => statuses'[id] = statuses[id]]_vars

\* the transitions of the documented state machine
Forward ==
    { << "Queued", "Downloading" >>, << "Queued", "Canceled" >>,
      << "Downloading", "Completed" >>, << "Downloading", "Failed" >>,
      << "Downloading", "Canceled" >> }

\* C5: a status that has been written only changes along Queued ->
\* Downloading -> {Completed, Failed, Canceled} or Queued -> Canceled; so a
\* task marked Downloading is never Queued again, and Completed or Failed is
\* only written over Downloading.
C5_StatusMovesForward ==
    [][\A id \in Ids :
          \/ statuses'[id] = statuses[id]
          \/ statuses[id] = "Absent"
          \/ << statuses[id], statuses'[id] >> \in Forward]_vars

\* C6: a cancel call that began when the status of its id was Queued or
\* Downloading returns true, and the status is Canceled when it returns.
C6_CancelLiveTaskSucceeds ==
    [][(cpc # "ret" /\ cpc' = "ret" /\ cstart \in {"Queued", "Downloading"})
          => (cres' = "true" /\ statuses'[cid] = "Canceled")]_vars

\* C7: a cancel call for an id that enqueue never returned, or whose status
\* was already Completed, Failed or Canceled, returns false and has changed
\* neither the status map, nor the queue, nor the running transfers.
C7_CancelUnknownOrTerminalIsNoop ==
    [][(cpc # "ret" /\ cpc' = "ret" /\ cstart \in Terminal \cup {"Absent"})
          => (cres' = "false" /\ ~cwrote')]_vars

\* C8: a task for which cancel returned true after removing it from the
\* queue is never in the queue again, never popped, never marked
\* Downloading, and no transfer (Fetcher) is ever started for it.
C8_CanceledQueuedNeverDispatched ==
    \A id \in Ids :
        id \in canceledQueued =>
            /\ id \notin queue
            /\ \A l \in Ids : cur[l] # id
            /\ statuses[id] # "Downloading"
            /\ xfer[id] = "none"

\* a queued task was canceled, every enqueue has been made, and the queue
\* has been drained by the consumer loops, which have all ended
C8_Witness ==
    /\ canceledQueued # {}
    /\ \A id \in Ids : epc[id] = "done"
    /\ queue = {}
    /\ ActiveLoops = {}
    /\ \E id \in Ids : xfer[id] # "none"

\* C9: after cancel returned true for a task that was Downloading, its
\* progress callback is not invoked any more and its status is not set to
\* Downloading again.
C9_NoCallbackAfterCancel ==
    [][\A id \in canceledRunning :
          /\ (id \in invoked' => id \in invoked)
          /\ statuses'[id] # "Downloading"]_vars

\* C10: when a dispatched transfer that was not canceled has ended, its
\* outcome is recorded: wait_for_completion returns Completed or Failed.
C10_OutcomeRecorded ==
    \A id \in Ids :
        (/\ xfer[id] \in {"done", "panicked"}
         /\ statuses[id] # "Canceled"
         /\ cid # id)
            => Poll(id) \in {"Completed", "Failed"}

\* ===================================================================
\* Fetcher: the range computation of fetch_asset
\* ===================================================================
\* Sizes and offsets are counted in MiB throughout the Fetcher model: a
\* content length of n stands for n * 1024 * 1024 bytes.

Min(a, b) == IF a < b THEN a ELSE b

\* u64::div_ceil
DivCeil(a, b) == IF a % b > 0 THEN (a \div b) + 1 ELSE a \div b

\* an end one past the last byte of the segment
RangeEndPastSegment(start, S, Z) == Min(start + Z, S - 1)

\* line 269: the last byte of the segment that begins at start
RangeEnd(start, S, Z) == Min(start + Z - 1, S - 1)

RECURSIVE RangesLoop(_, _, _, _)
\* lines 267-271: iterations i .. n-1 of the loop, each pushing one range
RangesLoop(i, n, S, Z) ==
    IF i >= n THEN << >>
    ELSE << << i * Z, RangeEnd(i * Z, S, Z) >> >>
         \o RangesLoop(i + 1, n, S, Z)

\* lines 264-271: the ranges vector for content_length S, segment_size Z
Ranges(S, Z) == RangesLoop(0, DivCeil(S, Z), S, Z)

\* the inputs of the range computation
RangesInit ==
    /\ ManagerParked
    /\ rS \in 0 .. MaxSize
    /\ rZ \in 1 .. MaxSegSize
    /\ rOut = << >>
    /\ rDone = FALSE
    /\ FetcherParked
    /\ VideoCacheParked
    /\ DownloadCacheParked

\* lines 264-271 for the inputs drawn
ComputeRanges ==
    /\ ~rDone
    /\ rOut' = Ranges(rS, rZ)
    /\ rDone' = TRUE
    /\ UNCHANGED << rS, rZ >>
    /\ UNCHANGED outsideRanges

RangesNext == ComputeRanges

SpecRanges == RangesInit /\ [][RangesNext]_rangeVars

\* number of bytes of the range r
RangeLen(r) == r[2] - r[1] + 1

RECURSIVE SumLen(_, _)
\* total length of the first k ranges of rs
SumLen(rs, k) == IF k = 0 THEN 0 ELSE RangeLen(rs[k]) + SumLen(rs, k - 1)

\* C15: for every content length S >= 0 and segment size Z >= 1 the
\* ranges number ceil(S/Z), begin at byte 0, end at byte S-1, each begins
\* right after the one before it, no two share a byte, their lengths sum
\* to S, and every range but the last has exactly Z bytes.
C15_RangesPartition ==
    rDone =>
        LET n == Len(rOut) IN
        /\ n * rZ >= rS
        /\ (n > 0 => (n - 1) * rZ < rS)
        /\ (n > 0 => rOut[1][1] = 0 /\ rOut[n][2] = rS - 1)
        /\ \A k \in 1 .. n : rOut[k][1] <= rOut[k][2]
        /\ \A k \in 1 .. (n - 1) : rOut[k + 1][1] = rOut[k][2] + 1
        /\ \A j, k \in 1 .. n :
              j # k => (rOut[j][2] < rOut[k][1] \/ rOut[k][2] < rOut[j][1])
        /\ SumLen(rOut, n) = rS
        /\ \A k \in 1 .. (n - 1) : RangeLen(rOut[k]) = rZ
        /\ (n > 0 => RangeLen(rOut[n]) <= rZ)

\* three ranges computed, the last one shorter than the segment size
C15_Witness ==
    /\ rDone
    /\ Len(rOut) = 3
    /\ RangeLen(rOut[3]) < rZ

\* ===================================================================
\* Fetcher: fetch_asset on one destination
\* ===================================================================
\* One caller invokes fetch_asset on the same destination up to MaxFetches
\* times, one call after the other.  The process may be killed while a
\* call is transferring, and the server may replace the resource between
\* two calls.  The Fetcher is the one Fetcher::new builds, with
\* retry_attempts set by with_retry_attempts and a progress callback.

\* content lengths the server may announce
RemoteSizes == {0, MaxSize - 2, MaxSize}

\* the k-th MiB of edition v of the resource: the first edition begins
\* with a run of zero bytes, every other MiB differs from all others
RemoteBlock(v, k) == IF v = 1 /\ k = 1 THEN 0 ELSE v * (MaxSize + 1) + k

\* the whole resource as the server holds it now
RemoteContent == [k \in 1 .. remoteLen |-> RemoteBlock(remoteVer, k)]

\* body of the response to "Range: bytes=start-end"
RemoteSlice(start, end) ==
    [k \in 1 .. (end - start + 1) |-> RemoteBlock(remoteVer, start + k)]

\* File::set_len: cut, or extend with zero bytes
SetLen(f, n) == [k \in 1 .. n |-> IF k <= Len(f) THEN f[k] ELSE 0]

\* a write_all without the seek before it
WriteAtStart(f, off, data) ==
    [k \in 1 .. (IF Len(f) > Len(data) THEN Len(f) ELSE Len(data)) |->
        IF k <= Len(data) THEN data[k] ELSE f[k]]

\* seek(Start(off)) followed by write_all(data)
WriteAt(f, off, data) ==
    [k \in 1 .. (IF Len(f) > off + Len(data) THEN Len(f)
                 ELSE off + Len(data)) |->
        IF k > off /\ k <= off + Len(data) THEN data[k - off]
        ELSE IF k <= Len(f) THEN f[k] ELSE 0]

\* lines 465-473: nothing could be read at start, or what was read is
\* all zero
IsSegmentEmpty(f, start) == start >= Len(f) \/ f[start + 1] = 0

\* calculate_optimal_segments, file_size in MiB
OptimalSegments(file_size, segment_size) ==
    LET total_segments == DivCeil(file_size, segment_size)
        file_size_mb == file_size
        max_parallel_segments ==
            IF file_size_mb < 10 THEN 1
            ELSE IF file_size_mb < 50 THEN 2
            ELSE IF file_size_mb < 100 THEN 4
            ELSE IF file_size_mb < 500 THEN 8
            ELSE IF file_size_mb < 1000 THEN 12
            ELSE IF file_size_mb < 2000 THEN 16
            ELSE 24
    IN  Min(total_segments, max_parallel_segments)

\* the shapes a HEAD response may have
HeadInputs ==
    {NoHead} \cup
    {[ok |-> TRUE, accept_ranges |-> a, content_length |-> c] :
        a \in BOOLEAN, c \in {<< >>} \cup {<< n >> : n \in RemoteSizes}}

\* the answers the server may give to the HEAD request: a content-length
\* header, when there is one, tells the length of the resource
HeadResponses ==
    {h \in HeadInputs :
        h.content_length = << >> \/ h.content_length = << remoteLen >>}

\* the HEAD response sends fetch_asset to the segmented code
Ranged(h) == h.ok /\ h.accept_ranges /\ h.content_length # << >>

\* a size test that never holds
NeverAlreadyDownloaded(exists, size, content_length) == FALSE

\* lines 218-219: the destination exists and has the announced size
AlreadyDownloaded(exists, size, content_length) ==
    exists /\ size = content_length

\* a filter that keeps every segment
DownloadEverySegment(i, downloaded) == FALSE

\* lines 296-301: segment i is filtered out of ranges_to_download
FilteredOut(i, downloaded) == i \in downloaded

\* a seed that counts every segment, listed in .parts or not
SeedBytesUnfiltered(rs, downloaded, k) == SumLen(rs, k)

RECURSIVE SeedBytes(_, _, _)
\* lines 316-324: sizes of the first k segments whose flag is true
SeedBytes(rs, downloaded, k) ==
    IF k = 0 THEN 0
    ELSE (IF (k - 1) \in downloaded THEN RangeLen(rs[k]) ELSE 0)
         + SeedBytes(rs, downloaded, k - 1)

\* line 378: the error of attempt a is swallowed and the loop goes on
MayRetry(a, R) == a < R - 1

\* a lock that is granted while it is held
FileFreeUnchecked(holder) == TRUE

\* Mutex::lock: the file mutex can be taken
FileFree(holder) == holder = -1

\* results whose errors are dropped
CollectIgnoringErrors(st) == "Ok"

\* lines 411-413: the first error among the results is returned
CollectResult(st) ==
    IF \E i \in DOMAIN st : st[i] = "failed" THEN "Err" ELSE "Ok"

\* futures the buffer_unordered stream is polling
InProgress ==
    {i \in DOMAIN spc : spc[i] \notin {"listed", "todo", "done", "failed"}}

segVars == << ranges, downloaded_segments, spc, attempt, gets,
              parallel_count, fileLock >>

\* ------------------------------------------------------------------ Init
FetchInit ==
    /\ ManagerParked
    /\ RangesParked
    /\ VideoCacheParked
    /\ DownloadCacheParked
    /\ remoteLen \in RemoteSizes
    /\ remoteVer = 1
    /\ destExists = FALSE
    /\ dest = << >>
    /\ partsExists = FALSE
    /\ parts = {}
    /\ retry_attempts \in 1 .. MaxRetry
    /\ nfetch = 0
    /\ fpc = "idle"
    /\ fres = "none"
    /\ interrupted = FALSE
    /\ NoCall

\* the call is over: its locals are dropped
ResetCall ==
    /\ fpath' = "none"
    /\ head' = NoHead
    /\ ranges' = << >>
    /\ downloaded_segments' = {}
    /\ spc' = << >>
    /\ attempt' = << >>
    /\ gets' = << >>
    /\ parallel_count' = 0
    /\ downloaded_bytes' = 0
    /\ total_bytes' = 0
    /\ fileLock' = -1
    /\ cbLast' = << >>
    /\ getCount' = 0
    /\ append_mode' = FALSE
    /\ chunk' = 0
    /\ startExists' = FALSE
    /\ startDest' = << >>
    /\ startParts' = {}
    /\ startInterrupted' = FALSE

\* ------------------------------------------------------------ fetch_asset
\* lines 164-191: stat the destination, send HEAD, get the response h
BeginCall(h) ==
    /\ fpc = "idle"
    /\ nfetch < MaxFetches
    /\ h \in HeadResponses
    /\ nfetch' = nfetch + 1
    /\ head' = h
    /\ startExists' = destExists
    /\ startDest' = dest
    /\ startParts' = IF partsExists THEN parts ELSE {}
    /\ startInterrupted' = interrupted
    /\ cbLast' = << >>
    /\ getCount' = 0
    /\ UNCHANGED << remoteLen, remoteVer, retry_attempts, partsExists,
                    parts >>
    /\ UNCHANGED outsideFetcher

\* line 191: the HEAD request fails and the error is returned
FetchHeadError(h) ==
    /\ BeginCall(h)
    /\ ~h.ok
    /\ fpc' = "done"
    /\ fres' = "Err"
    /\ fpath' = "headerr"
    /\ UNCHANGED << destExists, dest, segVars, downloaded_bytes,
                    total_bytes, append_mode, chunk, interrupted >>

\* lines 194-215: no accept-ranges or no content-length header, the call
\* goes on in fetch_asset_simple
FetchSimpleStart(h) ==
    /\ BeginCall(h)
    /\ h.ok
    /\ ~Ranged(h)
    /\ fpc' = "simple"
    /\ fpath' = "simple"
    /\ UNCHANGED << fres, destExists, dest, segVars, downloaded_bytes,
                    total_bytes, append_mode, chunk, interrupted >>

\* lines 217-224: the destination has the announced size, return Ok
FetchAlreadyComplete(h) ==
    /\ BeginCall(h)
    /\ Ranged(h)
    /\ AlreadyDownloaded(destExists, Len(dest), h.content_length[1])
    /\ fpc' = "done"
    /\ fres' = "Ok"
    /\ fpath' = "complete"
    /\ UNCHANGED << destExists, dest, segVars, downloaded_bytes,
                    total_bytes, append_mode, chunk, interrupted >>

\* lines 226-330: open or create the destination, set its length, build
\* the ranges, read .parts, filter, seed the counter
FetchSegmentedStart(h) ==
    /\ BeginCall(h)
    /\ Ranged(h)
    /\ ~AlreadyDownloaded(destExists, Len(dest), h.content_length[1])
    /\ LET content_length == h.content_length[1]
           rs == Ranges(content_length, DefaultSegmentSize)
           n == Len(rs)
           downloaded == IF destExists /\ partsExists
                         THEN {i \in parts : i < n} ELSE {}
           todo == {i \in 0 .. (n - 1) : ~FilteredOut(i, downloaded)}
           parallel_segments ==
               Min(DefaultParallelSegments,
                   OptimalSegments(content_length, DefaultSegmentSize))
       IN  /\ dest' = SetLen(IF destExists THEN dest ELSE << >>,
                             content_length)
           /\ destExists' = TRUE
           /\ ranges' = rs
           /\ downloaded_segments' = downloaded
           /\ spc' = [i \in 0 .. (n - 1) |->
                        IF i \in todo THEN "todo" ELSE "listed"]
           /\ attempt' = [i \in 0 .. (n - 1) |-> 0]
           /\ gets' = [i \in 0 .. (n - 1) |-> 0]
           /\ parallel_count' = Min(parallel_segments, Cardinality(todo))
           /\ downloaded_bytes' = SeedBytes(rs, downloaded, n)
           /\ total_bytes' = content_length
    /\ fileLock' = -1
    /\ fpc' = "segments"
    /\ fpath' = "segmented"
    /\ interrupted' = FALSE
    /\ UNCHANGED << fres, append_mode, chunk >>

\* what a step of one segment's future leaves alone
SegFrame ==
    /\ UNCHANGED << remoteLen, remoteVer, destExists, retry_attempts,
                    nfetch, fpc, fres, fpath, head, ranges, parallel_count,
                    total_bytes, append_mode, chunk, startExists,
                    startDest, startParts, interrupted, startInterrupted >>
    /\ UNCHANGED outsideFetcher

\* line 404: buffer_unordered takes the next future from the iterator
SegStart(i) ==
    /\ fpc = "segments"
    /\ i \in DOMAIN spc
    /\ spc[i] = "todo"
    /\ \A j \in DOMAIN spc : j < i => spc[j] # "todo"
    /\ Cardinality(InProgress) < parallel_count
    /\ spc' = [spc EXCEPT ![i] = "begin"]
    /\ UNCHANGED << dest, partsExists, parts, downloaded_segments, attempt,
                    gets, downloaded_bytes, fileLock, cbLast, getCount >>
    /\ SegFrame

\* lines 464-465: lock the file and seek to the start of the segment
SegLockProbe(i) ==
    /\ fpc = "segments"
    /\ i \in DOMAIN spc
    /\ spc[i] = "begin"
    /\ FileFree(fileLock)
    /\ fileLock' = i
    /\ spc' = [spc EXCEPT ![i] = "probing"]
    /\ UNCHANGED << dest, partsExists, parts, downloaded_segments, attempt,
                    gets, downloaded_bytes, cbLast, getCount >>
    /\ SegFrame

\* lines 469-485: read the head of the segment, unlock; a segment that
\* holds data is taken as downloaded and download_segment returns Ok
SegProbe(i) ==
    /\ fpc = "segments"
    /\ i \in DOMAIN spc
    /\ spc[i] = "probing"
    /\ fileLock' = -1
    /\ spc' = [spc EXCEPT ![i] =
                 IF IsSegmentEmpty(dest, ranges[i + 1][1])
                 THEN "send" ELSE "mark"]
    /\ UNCHANGED << dest, partsExists, parts, downloaded_segments, attempt,
                    gets, downloaded_bytes, cbLast, getCount >>
    /\ SegFrame

\* lines 488-494: send the ranged GET
SegSend(i) ==
    /\ fpc = "segments"
    /\ i \in DOMAIN spc
    /\ spc[i] = "send"
    /\ gets' = [gets EXCEPT ![i] = @ + 1]
    /\ getCount' = getCount + 1
    /\ spc' = [spc EXCEPT ![i] = "net"]
    /\ UNCHANGED << dest, partsExists, parts, downloaded_segments, attempt,
                    downloaded_bytes, fileLock, cbLast >>
    /\ SegFrame

\* lines 495-499 and 378-394: the request, the status or the body fails;
\* the loop sleeps and tries again, or returns the error
SegNetError(i) ==
    /\ fpc = "segments"
    /\ i \in DOMAIN spc
    /\ spc[i] = "net"
    /\ IF MayRetry(attempt[i], retry_attempts)
       THEN /\ attempt' = [attempt EXCEPT ![i] = @ + 1]
            /\ spc' = [spc EXCEPT ![i] = "begin"]
       ELSE /\ attempt' = attempt
            /\ spc' = [spc EXCEPT ![i] = "failed"]
    /\ UNCHANGED << dest, partsExists, parts, downloaded_segments, gets,
                    downloaded_bytes, fileLock, cbLast, getCount >>
    /\ SegFrame

\* lines 499-503: the body has arrived; lock the file and seek
SegLockWrite(i) ==
    /\ fpc = "segments"
    /\ i \in DOMAIN spc
    /\ spc[i] = "net"
    /\ FileFree(fileLock)
    /\ fileLock' = i
    /\ spc' = [spc EXCEPT ![i] = "writing"]
    /\ UNCHANGED << dest, partsExists, parts, downloaded_segments, attempt,
                    gets, downloaded_bytes, cbLast, getCount >>
    /\ SegFrame

\* lines 504-519: write the body, add to the counter, call the callback,
\* return Ok, which drops the guard
SegWrite(i) ==
    /\ fpc = "segments"
    /\ i \in DOMAIN spc
    /\ spc[i] = "writing"
    /\ LET start == ranges[i + 1][1]
           end == ranges[i + 1][2]
           data == RemoteSlice(start, end)
           new_total == downloaded_bytes + Len(data)
       IN  /\ dest' = WriteAt(dest, start, data)
           /\ downloaded_bytes' = new_total
           /\ cbLast' = << new_total, total_bytes >>
    /\ fileLock' = -1
    /\ spc' = [spc EXCEPT ![i] = "mark"]
    /\ UNCHANGED << partsExists, parts, downloaded_segments, attempt, gets,
                    getCount >>
    /\ SegFrame

\* lines 358-377: set the flag and append the index to .parts
SegMark(i) ==
    /\ fpc = "segments"
    /\ i \in DOMAIN spc
    /\ spc[i] = "mark"
    /\ downloaded_segments' = downloaded_segments \cup {i}
    /\ parts' = (IF partsExists THEN parts ELSE {}) \cup {i}
    /\ partsExists' = TRUE
    /\ spc' = [spc EXCEPT ![i] = "done"]
    /\ UNCHANGED << dest, attempt, gets, downloaded_bytes, fileLock,
                    cbLast, getCount >>
    /\ SegFrame

\* lines 408-423: every future has returned; return the first error, or
\* call the callback, remove .parts and return Ok
FetchCollect ==
    /\ fpc = "segments"
    /\ \A i \in DOMAIN spc : spc[i] \in {"listed", "done", "failed"}
    /\ LET res == CollectResult(spc)
       IN  /\ fres' = res
           /\ IF res = "Ok"
              THEN /\ cbLast' = << total_bytes, total_bytes >>
                   /\ partsExists' = FALSE
                   /\ parts' = {}
              ELSE UNCHANGED << cbLast, partsExists, parts >>
    /\ fpc' = "done"
    /\ UNCHANGED << remoteLen, remoteVer, destExists, dest, retry_attempts,
                    nfetch, fpath, head, segVars, downloaded_bytes,
                    total_bytes, getCount, append_mode, chunk, startExists,
                    startDest, startParts, interrupted, startInterrupted >>
    /\ UNCHANGED outsideFetcher

\* ------------------------------------------------------ fetch_asset_simple
\* what a step of fetch_asset_simple leaves alone
SimpleFrame ==
    /\ UNCHANGED << remoteLen, remoteVer, partsExists, parts,
                    retry_attempts, nfetch, fpath, head, segVars,
                    startExists, startDest, startParts, interrupted,
                    startInterrupted >>
    /\ UNCHANGED outsideFetcher

\* the statuses the server may answer the GET with, "error" when the
\* request itself fails; 206 needs a Range header the server can satisfy
SimpleStatuses ==
    {"error", "other", "ok"} \cup
    (IF destExists /\ Len(dest) > 0 /\ Len(dest) < remoteLen
     THEN {"partial"} ELSE {})

\* lines 522-626: send the GET (with Range: bytes=size- when the
\* destination is not empty), check the status, open the destination;
\* known: the response carries a content length
SimpleRespond(status, known) ==
    /\ fpc = "simple"
    /\ chunk = 0
    /\ status \in SimpleStatuses
    /\ getCount' = getCount + 1
    /\ IF status \in {"error", "other"}
       THEN /\ fpc' = "done"
            /\ fres' = "Err"
            /\ UNCHANGED << destExists, dest, append_mode, chunk,
                            downloaded_bytes, total_bytes >>
       ELSE LET file_size == Len(dest)
                append == status = "partial"
            IN  /\ append_mode' = append
                /\ destExists' = TRUE
                /\ dest' = dest
                /\ chunk' = IF append THEN file_size + 1 ELSE 1
                /\ downloaded_bytes' = IF append THEN file_size ELSE 0
                /\ total_bytes' =
                     IF ~known THEN 0
                     ELSE IF append
                          THEN (remoteLen - file_size) + file_size
                          ELSE remoteLen
                /\ UNCHANGED << fpc, fres >>
    /\ UNCHANGED cbLast
    /\ SimpleFrame

\* lines 628-645: one MiB of the body arrives, the callback is called,
\* the buffer is full and is written
SimpleChunk ==
    /\ fpc = "simple"
    /\ chunk >= 1
    /\ chunk <= remoteLen
    /\ downloaded_bytes' = downloaded_bytes + 1
    /\ cbLast' = << downloaded_bytes + 1, total_bytes >>
    /\ dest' = IF append_mode
               THEN Append(dest, RemoteBlock(remoteVer, chunk))
               ELSE WriteAt(dest, chunk - 1,
                            << RemoteBlock(remoteVer, chunk) >>)
    /\ chunk' = chunk + 1
    /\ UNCHANGED << destExists, fpc, fres, append_mode, total_bytes,
                    getCount >>
    /\ SimpleFrame

\* line 629: the body stream fails
SimpleStreamError ==
    /\ fpc = "simple"
    /\ chunk >= 1
    /\ chunk <= remoteLen
    /\ fpc' = "done"
    /\ fres' = "Err"
    /\ UNCHANGED << destExists, dest, append_mode, chunk, downloaded_bytes,
                    total_bytes, cbLast, getCount >>
    /\ SimpleFrame

\* lines 648-652: the body has ended, return Ok
SimpleFinish ==
    /\ fpc = "simple"
    /\ chunk > remoteLen
    /\ fpc' = "done"
    /\ fres' = "Ok"
    /\ UNCHANGED << destExists, dest, append_mode, chunk, downloaded_bytes,
                    total_bytes, cbLast, getCount >>
    /\ SimpleFrame

\* ------------------------------------------------------------ environment
\* the caller has the result; the locals of the call are gone
FetchReturn ==
    /\ fpc = "done"
    /\ fpc' = "idle"
    /\ fres' = "none"
    /\ ResetCall
    /\ UNCHANGED << worldVars, retry_attempts, nfetch, interrupted >>
    /\ UNCHANGED outsideFetcher

\* the process is killed while the call transfers; the files stay
Kill ==
    /\ fpc \in {"segments", "simple"}
    /\ fpc' = "idle"
    /\ fres' = "none"
    /\ interrupted' = (fpc = "segments")
    /\ ResetCall
    /\ UNCHANGED << worldVars, retry_attempts, nfetch >>
    /\ UNCHANGED outsideFetcher

\* between two calls the server replaces the resource
RemoteUpdate(len) ==
    /\ fpc = "idle"
    /\ nfetch >= 1
    /\ nfetch < MaxFetches
    /\ remoteVer = 1
    /\ remoteVer' = remoteVer + 1
    /\ remoteLen' = len
    /\ interrupted' = FALSE
    /\ UNCHANGED << destExists, dest, partsExists, parts, retry_attempts,
                    nfetch, fpc, fres, callVars >>
    /\ UNCHANGED outsideFetcher

FetchNext ==
    \/ \E h \in HeadInputs : FetchHeadError(h)
    \/ \E h \in HeadInputs : FetchSimpleStart(h)
    \/ \E h \in HeadInputs : FetchAlreadyComplete(h)
    \/ \E h \in HeadInputs : FetchSegmentedStart(h)
    \/ \E i \in 0 .. MaxSize : SegStart(i)
    \/ \E i \in 0 .. MaxSize : SegLockProbe(i)
    \/ \E i \in 0 .. MaxSize : SegProbe(i)
    \/ \E i \in 0 .. MaxSize : SegSend(i)
    \/ \E i \in 0 .. MaxSize : SegNetError(i)
    \/ \E i \in 0 .. MaxSize : SegLockWrite(i)
    \/ \E i \in 0 .. MaxSize : SegWrite(i)
    \/ \E i \in 0 .. MaxSize : SegMark(i)
    \/ FetchCollect
    \/ \E st \in {"error", "other", "ok", "partial"}, known \in BOOLEAN :
          SimpleRespond(st, known)
    \/ SimpleChunk
    \/ SimpleStreamError
    \/ SimpleFinish
    \/ FetchReturn
    \/ Kill
    \/ \E len \in RemoteSizes : RemoteUpdate(len)

SpecFetch == FetchInit /\ [][FetchNext]_fetchVars

\* ===================================================================
\* Properties of the Fetcher
\* ===================================================================

\* the call has returned Ok / Err and the caller has not yet gone on
ReturnedOk == fpc = "done" /\ fres = "Ok"
ReturnedErr == fpc = "done" /\ fres = "Err"

\* C11: a segmented fetch that began with no destination file and returns
\* Ok leaves a destination whose length and every MiB are those of the
\* resource, whatever the order of the segments and whatever the failed
\* attempts.
C11_FreshSegmentedFetchExact ==
    (ReturnedOk /\ fpath = "segmented" /\ ~startExists) =>
        (destExists /\ dest = RemoteContent)

\* three segments fetched two at a time into a new file, one of them
\* after a failed attempt
C11_Witness ==
    /\ ReturnedOk
    /\ fpath = "segmented"
    /\ ~startExists
    /\ Len(ranges) = 3
    /\ parallel_count = 2
    /\ \E i \in DOMAIN gets : gets[i] >= 2

\* the indices of the segments of the resource as the Fetcher cuts it
SegmentIndices == 0 .. (DivCeil(remoteLen, DefaultSegmentSize) - 1)

\* C12: a fetch that begins on what a killed segmented fetch left (the
\* destination extended to the full length, .parts listing some but not
\* all segment indices) and returns Ok leaves the destination equal to
\* the resource, as an uninterrupted download does.
C12_ResumeCompletesFile ==
    (/\ ReturnedOk
     /\ startInterrupted
     /\ Len(startDest) = remoteLen
     /\ startParts # {}
     /\ startParts # SegmentIndices
     /\ startParts \subseteq SegmentIndices) =>
        dest = RemoteContent

\* C13: a segmented fetch sends no ranged GET for a segment whose index
\* .parts listed when the call began.
C13_NoGetForListedSegment ==
    fpath = "segmented" =>
        \A i \in DOMAIN gets : i \in startParts => gets[i] = 0

\* a re-invoked fetch on a destination with a listed segment has sent
\* the GET of a segment that is not listed
C13_Witness ==
    /\ fpath = "segmented"
    /\ startExists
    /\ \E i \in DOMAIN gets : i \in startParts
    /\ \E i \in DOMAIN gets : i \notin startParts /\ gets[i] >= 1

\* a call is under way, or has returned, on a destination that existed
\* with the size the HEAD response announces
SizeAsAnnounced ==
    /\ fpath # "none"
    /\ startExists
    /\ head.ok
    /\ head.content_length = << Len(startDest) >>

\* C14 as stated: whenever the destination exists with the size the HEAD
\* response announces, the call sends no GET, leaves the destination as
\* it was and returns Ok.
C14_SizeMatchShortCircuit ==
    SizeAsAnnounced =>
        /\ getCount = 0
        /\ dest = startDest
        /\ (fpc = "done" => fres = "Ok")

\* C14 amended: when the HEAD response carries accept-ranges and a
\* content-length equal to the size of the existing destination, the call
\* returns Ok at once, having sent no GET and left the destination as it
\* was.
C14_RangedSizeMatchShortCircuit ==
    (SizeAsAnnounced /\ head.accept_ranges) =>
        /\ ReturnedOk
        /\ getCount = 0
        /\ dest = startDest

\* the short-circuit taken on a destination that is not empty
C14_Witness ==
    /\ SizeAsAnnounced
    /\ head.accept_ranges
    /\ ReturnedOk
    /\ Len(startDest) > 0

\* every one of the retry_attempts attempts of segment i has failed
Exhausted(i) == gets[i] = retry_attempts /\ i \notin downloaded_segments

\* C16: in a segmented fetch with retry_attempts = R >= 1 no segment is
\* requested more than R times, and the call returns an error exactly
\* when some segment has failed on all R attempts: it returns Ok when
\* every segment succeeded on one of its first R attempts.
C16_RetryBoundAndOutcome ==
    fpath = "segmented" =>
        /\ \A i \in DOMAIN gets : gets[i] <= retry_attempts
        /\ (fpc = "done" =>
              (fres = "Err" <=> \E i \in DOMAIN gets : Exhausted(i)))
        /\ (fpc = "done" /\ (\A i \in DOMAIN gets : ~Exhausted(i)) =>
              fres = "Ok")

\* R = 3, three segments, one of them fetched on its third attempt after
\* two failures, and the call returns Ok
C16_Witness ==
    /\ ReturnedOk
    /\ fpath = "segmented"
    /\ retry_attempts = 3
    /\ Len(ranges) = 3
    /\ \E i \in DOMAIN gets : gets[i] = 3 /\ i \in downloaded_segments

\* C17: in a segmented fetch that began on a destination whose size
\* differed from the announced total, no segment is taken as complete
\* because .parts listed its index, and when the call returns Ok every
\* segment has been requested.
C17_SizeMismatchIgnoresParts ==
    (fpath = "segmented" /\ startExists /\ Len(startDest) # total_bytes) =>
        /\ \A i \in DOMAIN spc : spc[i] # "listed"
        /\ (ReturnedOk => \A i \in DOMAIN gets : gets[i] >= 1)

\* C18: when a fetch has returned Ok, on whichever path, there is no
\* <destination>.parts file.
C18_NoPartsAfterSuccess == ReturnedOk => ~partsExists

\* segments between their seek and the end of their probe read or write
OnDisk == {i \in DOMAIN spc : spc[i] \in {"probing", "writing"}}

\* C19: within one fetch at most one segment at a time is between its
\* seek and the end of its write or probe read, and it is the one that
\* holds the file mutex.
C19_DiskAccessExclusive ==
    /\ Cardinality(OnDisk) <= 1
    /\ \A i \in OnDisk : fileLock = i

\* one segment is writing under the mutex while the ranged GET of
\* another is in flight
C19_Witness ==
    \E i, j \in DOMAIN spc :
        i # j /\ spc[i] = "writing" /\ fileLock = i /\ spc[j] = "net"

\* C20: when a fetch has returned Ok, its progress callback has been
\* invoked and the last invocation had downloaded equal to total.
C20_FinalCallbackComplete ==
    ReturnedOk => (cbLast # << >> /\ cbLast[1] = cbLast[2])

\* C21: a fetch through fetch_asset_simple that began on a destination
\* of N > 0 bytes and returns Ok leaves, after a 206 answer, the old N
\* bytes followed by the response body, and after a 200 answer exactly
\* the response body, which is then the whole resource.
C21_SimpleResumeOrRestart ==
    (ReturnedOk /\ fpath = "simple" /\ startExists /\ Len(startDest) > 0) =>
        IF append_mode
        THEN dest = startDest \o RemoteSlice(Len(startDest), remoteLen - 1)
        ELSE dest = RemoteContent

\* ------------------------------------------------------------ VideoCache
\* the values of a u64, reduced to TimeBits bits
U64Range == 0 .. 2 ^ TimeBits - 1
\* i64::MAX at that width: the largest integer SQLite stores
I64Max == 2 ^ (TimeBits - 1) - 1

\* u64 subtraction in a build without overflow checks
WrappingSub(a, b) == (a - b + 2 ^ TimeBits) % 2 ^ TimeBits

\* the ids and titles of the videos put into the cache
VideoIds == {"a", "b"}
Titles == {"t1", "t2"}
VideoValues == [id : VideoIds, title : Titles]

\* lines 40-52: the CachedVideo built from the arguments of put, with the
\* video serialised into video_json
CachedVideo(url, video) ==
    [id |-> video.id, title |-> video.title, url |-> url,
     video_json |-> video, cached_at |-> now]

\* lines 315-320 and 448-453: the TTL test that never lets a row expire
NeverExpired(row) == TRUE
\* lines 315-320 and 448-453: the TTL test of get and get_by_id
NotExpired(row) == now - row.cached_at <= video_ttl

\* line 296: SELECT ... FROM videos WHERE url = ?
RowsByUrl(url) == SelectSeq(videos, LAMBDA r : r.url = url)
\* line 440: SELECT ... FROM videos WHERE id = ?
RowsById(id) == SelectSeq(videos, LAMBDA r : r.id = id)

\* lines 308-344 and 446-485: only the first row of the result is looked
\* at; Some(video) if it has not expired
FirstLive(rows) ==
    IF rows # << >> /\ NotExpired(rows[1])
    THEN << rows[1].video_json >> ELSE << >>

\* get, lines 289-345, on a connection that can be locked
Get(url) == FirstLive(RowsByUrl(url))
\* get_by_id, lines 433-486: Ok(video) is << video >>, Err is << >>
GetById(id) == FirstLive(RowsById(id))

\* line 367: INSERT OR REPLACE deletes the row with the same primary key
\* (id) and adds the new row
InsertOrReplace(rows, row) ==
    Append(SelectSeq(rows, LAMBDA r : r.id # row.id), row)

\* the constructor, lines 241-278: an empty table, the ttl given
VideoCacheInit ==
    /\ ManagerParked
    /\ RangesParked
    /\ FetcherParked
    /\ DownloadCacheParked
    /\ now = 0
    /\ overflow_checks \in BOOLEAN
    /\ video_ttl \in U64Range
    /\ videos = << >>
    /\ video_poisoned = FALSE
    /\ lastPut = [u \in Urls |-> << >>]
    /\ vres = NoResult

\* the calls that can be made on a VideoCache
VideoCalls ==
    ({"get", "put", "remove"} \X Urls) \cup ({"get_by_id"} \X VideoIds)
        \cup {<< "clean", "" >>}

\* lock().unwrap() on a poisoned mutex panics: lines 293, 364, 393, 414, 437
VideoCallPanics(op, key) ==
    /\ video_poisoned
    /\ vres' = [op |-> op, key |-> key, status |-> "panic", video |-> << >>]
    /\ UNCHANGED << now, overflow_checks, video_ttl, videos, video_poisoned,
                    lastPut >>
    /\ UNCHANGED outsideVideoCache

\* get, lines 289-345
VideoGet(url) ==
    /\ ~video_poisoned
    /\ vres' = [op |-> "get", key |-> url, status |-> "ok",
                video |-> Get(url)]
    /\ UNCHANGED << now, overflow_checks, video_ttl, videos, video_poisoned,
                    lastPut >>
    /\ UNCHANGED outsideVideoCache

\* get_by_id, lines 433-486
VideoGetById(id) ==
    /\ ~video_poisoned
    /\ vres' = [op |-> "get_by_id", key |-> id,
                status |-> IF GetById(id) = << >> THEN "err" ELSE "ok",
                video |-> GetById(id)]
    /\ UNCHANGED << now, overflow_checks, video_ttl, videos, video_poisoned,
                    lastPut >>
    /\ UNCHANGED outsideVideoCache

\* put, lines 357-378
VideoPut(url, video) ==
    /\ ~video_poisoned
    /\ videos' = InsertOrReplace(videos, CachedVideo(url, video))
    /\ lastPut' = [lastPut EXCEPT ![url] = << [video |-> video, at |-> now] >>]
    /\ vres' = [op |-> "put", key |-> url, status |-> "ok", video |-> << >>]
    /\ UNCHANGED << now, overflow_checks, video_ttl, video_poisoned >>
    /\ UNCHANGED outsideVideoCache

\* remove, lines 389-398: DELETE FROM videos WHERE url = ?
VideoRemove(url) ==
    /\ ~video_poisoned
    /\ videos' = SelectSeq(videos, LAMBDA r : r.url # url)
    /\ lastPut' = [lastPut EXCEPT ![url] = << >>]
    /\ vres' = [op |-> "remove", key |-> url, status |-> "ok",
                video |-> << >>]
    /\ UNCHANGED << now, overflow_checks, video_ttl, video_poisoned >>
    /\ UNCHANGED outsideVideoCache

\* line 417: DELETE FROM videos WHERE cached_at < ?
DeleteOlderThan(rows, threshold) ==
    SelectSeq(rows, LAMBDA r : ~(r.cached_at < threshold))

\* clean, lines 405-422, when now - self.ttl does not overflow
VideoClean ==
    /\ ~video_poisoned
    /\ video_ttl <= now
    /\ videos' = DeleteOlderThan(videos, now - video_ttl)
    /\ vres' = [op |-> "clean", key |-> "", status |-> "ok", video |-> << >>]
    /\ UNCHANGED << now, overflow_checks, video_ttl, video_poisoned, lastPut >>
    /\ UNCHANGED outsideVideoCache

\* clean when now - self.ttl (line 418) overflows in a build with overflow
\* checks: the panic unwinds through the MutexGuard of line 414
VideoCleanPanic ==
    /\ ~video_poisoned
    /\ video_ttl > now
    /\ overflow_checks
    /\ video_poisoned' = TRUE
    /\ vres' = [op |-> "clean", key |-> "", status |-> "panic",
                video |-> << >>]
    /\ UNCHANGED << now, overflow_checks, video_ttl, videos, lastPut >>
    /\ UNCHANGED outsideVideoCache

\* clean when now - self.ttl wraps: a threshold above i64::MAX cannot be
\* bound to the statement and execute returns an error, a smaller one is
\* used as it is
VideoCleanWrapped ==
    /\ ~video_poisoned
    /\ video_ttl > now
    /\ ~overflow_checks
    /\ IF WrappingSub(now, video_ttl) > I64Max
       THEN /\ videos' = videos
            /\ vres' = [op |-> "clean", key |-> "", status |-> "err",
                        video |-> << >>]
       ELSE /\ videos' = DeleteOlderThan(videos, WrappingSub(now, video_ttl))
            /\ vres' = [op |-> "clean", key |-> "", status |-> "ok",
                        video |-> << >>]
    /\ UNCHANGED << now, overflow_checks, video_ttl, video_poisoned, lastPut >>
    /\ UNCHANGED outsideVideoCache

\* a second passes
VideoTick ==
    /\ now < MaxNow
    /\ now' = now + 1
    /\ UNCHANGED << overflow_checks, video_ttl, videos, video_poisoned,
                    lastPut, vres >>
    /\ UNCHANGED outsideVideoCache

VideoCacheNext ==
    \/ \E url \in Urls : VideoGet(url)
    \/ \E id \in VideoIds : VideoGetById(id)
    \/ \E url \in Urls, video \in VideoValues : VideoPut(url, video)
    \/ \E url \in Urls : VideoRemove(url)
    \/ VideoClean
    \/ VideoCleanPanic
    \/ VideoCleanWrapped
    \/ \E c \in VideoCalls : VideoCallPanics(c[1], c[2])
    \/ VideoTick

SpecVideoCache == VideoCacheInit /\ [][VideoCacheNext]_videoVars

\* ------------------------------------------------- VideoCache properties
\* C29: the cache is a map keyed by url: whenever the last put under k
\* that no remove of k followed is within the TTL, get(k) returns the
\* video of that put, whatever was put or removed under other keys and
\* whatever ids the videos carry; and get(k) is a miss when there is no
\* such put.
C29_MapKeyedByUrl ==
    \A k \in Urls :
        IF lastPut[k] = << >>
        THEN Get(k) = << >>
        ELSE now - lastPut[k][1].at <= video_ttl
                 => Get(k) = << lastPut[k][1].video >>

\* a step of clean, whatever the build and the ttl
CleanStep == VideoClean \/ VideoCleanPanic \/ VideoCleanWrapped

\* C30: clean deletes exactly the entries get treats as expired: a get
\* that was a hit before clean returns the same video after it, and no
\* row with cached_at < now - ttl is left, for every ttl of the unsigned
\* range, a ttl larger than the current time included.
C30_CleanDeletesExactlyExpired ==
    [][CleanStep =>
          /\ \A k \in Urls :
                 Get(k) # << >> => (~video_poisoned' /\ Get(k)' = Get(k))
          /\ \A i \in 1 .. Len(videos) :
                 ~NotExpired(videos[i]) =>
                     \A j \in 1 .. Len(videos') : videos'[j] # videos[i]
      ]_videoVars

\* --------------------------------------------------------- DownloadCache
\* the bytes of the source files given to put_file and put_thumbnail
Contents == {"x", "y"}
\* the bytes of the thumbnails
ThumbnailContents == {"x"}
\* lines 594-609: the SHA-256 of the bytes in hexadecimal, one digest a
\* content
Sha256(bytes) == IF bytes = "x" THEN "2d71" ELSE "a1fc"
Hashes == {Sha256(b) : b \in Contents}

\* the declared filenames: a stem and what follows the last dot
Filenames ==
    {[stem |-> "a", ext |-> "mp4"], [stem |-> "b", ext |-> "mp4"],
     [stem |-> "a", ext |-> "webm"]}
ThumbnailFilenames == {[stem |-> "t", ext |-> "jpg"]}
\* lines 712-716 and 824-828: Path::new(filename).extension()
Extension(filename) == filename.ext

\* the video_id, format and video_quality arguments of
\* put_file_with_preferences; an Option is << >> or << v >>
PutVariants ==
    {[video_id |-> << >>, format_id |-> << >>, video_quality |-> << >>],
     [video_id |-> << "v1" >>, format_id |-> << "f1" >>,
      video_quality |-> << "best" >>]}
\* the arguments of the getters
OwnerIds == {"v1"}
FormatIds == {"f1"}
Qualities == {<< >>, << "best" >>}
\* the ttl values given to the constructor
DownloadTtls == {0, 2 ^ TimeBits - 1}

\* line 718: format!("files/{}.{}", file_hash, extension)
FilePath(hash, ext) == [dir |-> "files", hash |-> hash, ext |-> ext]
\* line 830: format!("thumbnails/{}.{}", file_hash, extension)
ThumbnailPath(hash, ext) == [dir |-> "thumbnails", hash |-> hash, ext |-> ext]

\* the TTL test that lets no row expire
AlwaysLive(row) == TRUE
\* lines 928, 1098, 1256 and 1474: now - cached_at <= self.ttl
FileLive(row) == now - row.cached_at <= download_ttl

\* the getters without the check that the file exists
FirstHitUnverified(rows) ==
    IF rows # << >> /\ FileLive(rows[1]) THEN << rows[1] >> ELSE << >>
\* lines 917-1044, 1087-1222, 1252-1296 and 1463-1592: only the first row
\* of the result is looked at; it is a hit if it has not expired and the
\* file at its relative path exists
FirstHit(rows) ==
    IF rows # << >> /\ FileLive(rows[1]) /\ rows[1].relative_path \in blobs
    THEN << rows[1] >> ELSE << >>

\* the branch a getter takes on the rows of its query
Branch(rows) ==
    IF rows = << >> THEN "no row"
    ELSE IF ~FileLive(rows[1]) THEN "expired"
    ELSE IF rows[1].relative_path \notin blobs THEN "missing"
    ELSE "hit"

\* line 904: FROM files WHERE id = ?
RowsByHash(hash) == SelectSeq(files, LAMBDA r : r.id = hash)

\* line 1072: FROM files WHERE video_id = ? AND format_id = ?
RowsByVideoAndFormat(video_id, format_id) ==
    SelectSeq(files, LAMBDA r :
        r.video_id = << video_id >> /\ r.format_id = << format_id >>)

\* line 1243: FROM files WHERE video_id = ? AND file_type = ? AND
\* format_id = 'thumbnail', with the file type Thumbnail
ThumbnailRows(video_id) ==
    SelectSeq(files, LAMBDA r :
        /\ r.video_id = << video_id >>
        /\ r.file_type = "Thumbnail"
        /\ r.format_id = << "thumbnail" >>)

\* lines 1422-1443: FROM files WHERE video_id = ?, AND video_quality = ?
\* when a quality is given
RowsByVideoAndPreferences(video_id, video_quality) ==
    SelectSeq(files, LAMBDA r :
        /\ r.video_id = << video_id >>
        /\ (video_quality # << >> => r.video_quality = video_quality))

\* get_by_hash, lines 895-1045
GetByHash(hash) == FirstHit(RowsByHash(hash))

\* get_by_video_and_format, lines 1057-1223
GetByVideoAndFormat(video_id, format_id) ==
    FirstHit(RowsByVideoAndFormat(video_id, format_id))

\* get_thumbnail_by_video_id, lines 1234-1297
GetThumbnailByVideoId(video_id) == FirstHit(ThumbnailRows(video_id))

\* get_by_video_and_preferences, lines 1405-1593
GetByVideoAndPreferences(video_id, video_quality) ==
    FirstHit(RowsByVideoAndPreferences(video_id, video_quality))

\* lines 727-758: the CachedFile of a put
CachedFile(hash, ext, variant) ==
    [id |-> hash, relative_path |-> FilePath(hash, ext),
     video_id |-> variant.video_id,
     file_type |-> IF variant.format_id # << >> THEN "Format" ELSE "Other",
     format_id |-> variant.format_id,
     video_quality |-> variant.video_quality,
     cached_at |-> now]

\* lines 848-858: the CachedThumbnail of a put
CachedThumbnail(hash, ext, video_id) ==
    [id |-> hash, relative_path |-> ThumbnailPath(hash, ext),
     video_id |-> video_id, cached_at |-> now]

\* the constructor, lines 515-583: the cache directory is created if it
\* is missing, the tables are empty; files_dir is true when the cache
\* directory was there before and already had a directory files
DownloadCacheInit ==
    /\ ManagerParked
    /\ RangesParked
    /\ FetcherParked
    /\ now = 0
    /\ overflow_checks \in BOOLEAN
    /\ video_ttl = 0
    /\ videos = << >>
    /\ video_poisoned = FALSE
    /\ lastPut = [u \in Urls |-> << >>]
    /\ vres = NoResult
    /\ PutsParked
    /\ download_ttl \in DownloadTtls
    /\ files_dir \in BOOLEAN
    /\ blobs = {}
    /\ files = << >>
    /\ thumbnails = << >>
    /\ download_poisoned = FALSE
    /\ dres = NoDownloadResult

\* the result of a call: entry is << >> when the call returned no entry
Result(op, status, entry, copied) ==
    [op |-> op, status |-> status, entry |-> entry, copied |-> copied,
     branch |-> ""]

\* line 763: INSERT OR REPLACE INTO files, whose primary key is id
ReplaceFile(rows, row) ==
    Append(SelectSeq(rows, LAMBDA r : r.id # row.id), row)

\* put_file, lines 646-664, and put_file_with_preferences, lines 687-785
PutFile(bytes, filename, variant) ==
    LET path == FilePath(Sha256(bytes), Extension(filename))
        copies == path \notin blobs
    IN  /\ IF copies /\ ~files_dir
           THEN \* line 723: tokio::fs::copy into a directory that is missing
                /\ dres' = Result("put_file", "err", << >>, FALSE)
                /\ UNCHANGED << blobs, files >>
           ELSE /\ blobs' = blobs \cup {path}
                /\ IF download_poisoned
                   THEN /\ dres' = Result("put_file", "panic", << >>, copies)
                        /\ files' = files
                   ELSE /\ dres' = Result("put_file", "ok",
                                          << Sha256(bytes) >>, copies)
                        /\ files' = ReplaceFile(files,
                              CachedFile(Sha256(bytes), Extension(filename),
                                         variant))
        /\ UNCHANGED << download_ttl, files_dir, thumbnails,
                        download_poisoned, clockVars >>
        /\ UNCHANGED outsideDownloadCache

\* put_thumbnail, lines 803-884: the copy is unconditional and the INSERT
\* fails when a row with the same id is in the table
PutThumbnail(bytes, filename, video_id) ==
    LET hash == Sha256(bytes)
        path == ThumbnailPath(hash, Extension(filename))
    IN  /\ blobs' = blobs \cup {path}
        /\ IF download_poisoned
           THEN /\ dres' = Result("put_thumbnail", "panic", << >>, TRUE)
                /\ thumbnails' = thumbnails
           ELSE IF \E i \in 1 .. Len(thumbnails) : thumbnails[i].id = hash
           THEN /\ dres' = Result("put_thumbnail", "err", << >>, TRUE)
                /\ thumbnails' = thumbnails
           ELSE /\ dres' = Result("put_thumbnail", "ok", << hash >>, TRUE)
                /\ thumbnails' = Append(thumbnails,
                      CachedThumbnail(hash, Extension(filename), video_id))
        /\ UNCHANGED << download_ttl, files_dir, files, download_poisoned,
                        clockVars >>
        /\ UNCHANGED outsideDownloadCache

\* what is recorded of the entry a getter returned: that it is a hit
EntryId(hit) == IF hit = << >> THEN << >> ELSE << "hit" >>

\* a getter that would make the row it reads as new as the read
ReturnsRefreshing(op, rows) ==
    /\ dres' = [Result(op, "ok", EntryId(FirstHit(rows)), FALSE)
                   EXCEPT !.branch = Branch(rows)]
    /\ files' = [i \in 1 .. Len(files) |->
                    IF rows # << >> /\ files[i] = rows[1]
                    THEN [files[i] EXCEPT !.cached_at = now] ELSE files[i]]
    /\ UNCHANGED << download_ttl, files_dir, blobs, thumbnails,
                    download_poisoned, clockVars >>
    /\ UNCHANGED outsideDownloadCache
\* a getter returns what it makes of the rows of its query and changes
\* nothing
Returns(op, rows) ==
    /\ dres' = [Result(op, "ok", EntryId(FirstHit(rows)), FALSE)
                   EXCEPT !.branch = Branch(rows)]
    /\ UNCHANGED << download_ttl, files_dir, blobs, files, thumbnails,
                    download_poisoned, clockVars >>
    /\ UNCHANGED outsideDownloadCache

\* get_by_hash, lines 895-1045
DownloadGetByHash(hash) ==
    /\ ~download_poisoned
    /\ Returns("get_by_hash", RowsByHash(hash))

\* get_by_video_and_format, lines 1057-1223
DownloadGetByVideoAndFormat(video_id, format_id) ==
    /\ ~download_poisoned
    /\ Returns("get_by_video_and_format",
               RowsByVideoAndFormat(video_id, format_id))

\* get_thumbnail_by_video_id, lines 1234-1297
DownloadGetThumbnailByVideoId(video_id) ==
    /\ ~download_poisoned
    /\ Returns("get_thumbnail_by_video_id", ThumbnailRows(video_id))

\* get_by_video_and_preferences, lines 1405-1593
DownloadGetByVideoAndPreferences(video_id, video_quality) ==
    /\ ~download_poisoned
    /\ Returns("get_by_video_and_preferences",
               RowsByVideoAndPreferences(video_id, video_quality))

\* remove_file, lines 1308-1340: the row goes, then its file if it exists
DownloadRemoveFile(hash) ==
    /\ ~download_poisoned
    /\ files' = SelectSeq(files, LAMBDA r : r.id # hash)
    /\ blobs' = blobs \ {files[i].relative_path :
                            i \in {j \in 1 .. Len(files) : files[j].id = hash}}
    /\ dres' = Result("remove_file", "ok", << >>, FALSE)
    /\ UNCHANGED << download_ttl, files_dir, thumbnails, download_poisoned,
                    clockVars >>
    /\ UNCHANGED outsideDownloadCache

\* lines 1359-1387: the files of the rows of table files with
\* cached_at < threshold are removed, then those rows
CleanFiles(threshold) ==
    /\ blobs' = blobs \ {files[i].relative_path :
          i \in {j \in 1 .. Len(files) : files[j].cached_at < threshold}}
    /\ files' = SelectSeq(files, LAMBDA r : ~(r.cached_at < threshold))

\* clean, lines 1347-1390, when now - self.ttl does not overflow
DownloadClean ==
    /\ ~download_poisoned
    /\ download_ttl <= now
    /\ CleanFiles(now - download_ttl)
    /\ dres' = Result("clean", "ok", << >>, FALSE)
    /\ UNCHANGED << download_ttl, files_dir, thumbnails, download_poisoned,
                    clockVars >>
    /\ UNCHANGED outsideDownloadCache

\* clean when now - self.ttl (line 1363) overflows in a build with
\* overflow checks: the panic unwinds through the MutexGuard of line 1356
DownloadCleanPanic ==
    /\ ~download_poisoned
    /\ download_ttl > now
    /\ overflow_checks
    /\ download_poisoned' = TRUE
    /\ dres' = Result("clean", "panic", << >>, FALSE)
    /\ UNCHANGED << download_ttl, files_dir, blobs, files, thumbnails,
                    clockVars >>
    /\ UNCHANGED outsideDownloadCache

\* clean when now - self.ttl wraps: a threshold above i64::MAX cannot be
\* bound to the statement of line 1359 and clean returns the error
DownloadCleanWrapped ==
    /\ ~download_poisoned
    /\ download_ttl > now
    /\ ~overflow_checks
    /\ IF WrappingSub(now, download_ttl) > I64Max
       THEN /\ UNCHANGED << blobs, files >>
            /\ dres' = Result("clean", "err", << >>, FALSE)
       ELSE /\ CleanFiles(WrappingSub(now, download_ttl))
            /\ dres' = Result("clean", "ok", << >>, FALSE)
    /\ UNCHANGED << download_ttl, files_dir, thumbnails, download_poisoned,
                    clockVars >>
    /\ UNCHANGED outsideDownloadCache

\* the calls that lock the connection first
LockingCalls ==
    {"get_by_hash", "get_by_video_and_format", "get_thumbnail_by_video_id",
     "get_by_video_and_preferences", "remove_file", "clean"}

\* lock().unwrap() on a poisoned mutex panics: lines 899, 1069, 1238,
\* 1315, 1356 and 1419
DownloadCallPanics(op) ==
    /\ download_poisoned
    /\ dres' = Result(op, "panic", << >>, FALSE)
    /\ UNCHANGED << download_ttl, files_dir, blobs, files, thumbnails,
                    download_poisoned, clockVars >>
    /\ UNCHANGED outsideDownloadCache

\* the relative paths the rows of table files name
RowPaths == {files[i].relative_path : i \in 1 .. Len(files)}

\* the file of a row is deleted by something else than the cache
BlobLost(path) ==
    /\ path \in blobs \cap RowPaths
    /\ blobs' = blobs \ {path}
    /\ UNCHANGED << download_ttl, files_dir, files, thumbnails,
                    download_poisoned, dres, clockVars >>
    /\ UNCHANGED outsideDownloadCache

\* a second passes
DownloadTick ==
    /\ now < MaxDownloadNow
    /\ now' = now + 1
    /\ UNCHANGED << overflow_checks, downloadVars >>
    /\ UNCHANGED outsideDownloadCache

\* every path put_file can write
AllPaths == {FilePath(h, f.ext) : h \in Hashes, f \in Filenames}

DownloadCacheNext ==
    \/ \E b \in Contents, f \in Filenames, v \in PutVariants : PutFile(b, f, v)
    \/ \E b \in ThumbnailContents, f \in ThumbnailFilenames, o \in OwnerIds :
           PutThumbnail(b, f, o)
    \/ \E h \in Hashes : DownloadGetByHash(h)
    \/ \E o \in OwnerIds, f \in FormatIds : DownloadGetByVideoAndFormat(o, f)
    \/ \E o \in OwnerIds : DownloadGetThumbnailByVideoId(o)
    \/ \E o \in OwnerIds, q \in Qualities :
           DownloadGetByVideoAndPreferences(o, q)
    \/ \E h \in Hashes : DownloadRemoveFile(h)
    \/ DownloadClean
    \/ DownloadCleanPanic
    \/ DownloadCleanWrapped
    \/ \E op \in LockingCalls : DownloadCallPanics(op)
    \/ \E p \in AllPaths : BlobLost(p)
    \/ DownloadTick

SpecDownloadCache ==
    DownloadCacheInit /\ [][DownloadCacheNext]_<< clockVars, downloadVars >>

\* ------------------------------------------------ DownloadCache properties
\* the files stored under <cache_dir>/files for the content with this hash
StoredBlobs(hash) == {p \in blobs : p.dir = "files" /\ p.hash = hash}

\* C22: content addressing: when put_file has succeeded, the content it
\* was given is stored in exactly one blob, whatever filenames were
\* declared for that content in this and in earlier puts.
C22_OneBlobPerContent ==
    (dres.op = "put_file" /\ dres.status = "ok") =>
        Cardinality(StoredBlobs(dres.entry[1])) = 1

\* the entries of table files that have not expired and whose file is
\* on disk
LiveEntries ==
    {files[i] : i \in {j \in 1 .. Len(files) :
                          FileLive(files[j]) /\ files[j].relative_path \in blobs}}

\* C23: on a cache constructed over a cache directory that has no
\* directory files, put_file succeeds, and every entry it has stored is
\* returned by get_by_hash, and by get_by_video_and_format when it has a
\* video id and a format id, until it expires or is removed.
C23_PutThenGetOnFreshCache ==
    ~files_dir =>
        /\ dres.op = "put_file" => dres.status = "ok"
        /\ \A e \in LiveEntries :
               /\ GetByHash(e.id) = << e >>
               /\ (e.video_id # << >> /\ e.format_id # << >>) =>
                      GetByVideoAndFormat(e.video_id[1], e.format_id[1])
                          # << >>

\* the queries the four getters can make
GetterQueries ==
    {RowsByHash(h) : h \in Hashes}
        \cup {RowsByVideoAndFormat(o, f) : o \in OwnerIds, f \in FormatIds}
        \cup {ThumbnailRows(o) : o \in OwnerIds}
        \cup {RowsByVideoAndPreferences(o, q) : o \in OwnerIds, q \in Qualities}

\* C24: a stale row is a silent miss: in each of the four getters, when
\* the row the query yields names a file that is not on disk, the getter
\* returns None; a getter never returns an entry whose file is missing.
C24_StaleRowIsMiss ==
    \A rows \in GetterQueries :
        /\ (rows # << >> /\ rows[1].relative_path \notin blobs) =>
               FirstHit(rows) = << >>
        /\ FirstHit(rows) # << >> => FirstHit(rows)[1].relative_path \in blobs

\* a getter has found a row within its TTL whose file is missing, and
\* has returned None
C24_Witness ==
    /\ dres.status = "ok"
    /\ dres.branch = "missing"
    /\ dres.entry = << >>

\* a row without the time it was cached at
Strip(row) == [row EXCEPT !.cached_at = 0]
\* the rows of a table, without their times
Stripped(rows) == {Strip(rows[i]) : i \in 1 .. Len(rows)}

\* this put_file repeats one whose row and blob are in place
RepeatsFilePut(bytes, filename, variant) ==
    /\ ~download_poisoned
    /\ FilePath(Sha256(bytes), Extension(filename)) \in blobs
    /\ Strip(CachedFile(Sha256(bytes), Extension(filename), variant))
           \in Stripped(files)

\* this put_thumbnail repeats one whose row and blob are in place
RepeatsThumbnailPut(bytes, filename, video_id) ==
    /\ ~download_poisoned
    /\ ThumbnailPath(Sha256(bytes), Extension(filename)) \in blobs
    /\ Strip(CachedThumbnail(Sha256(bytes), Extension(filename), video_id))
           \in Stripped(thumbnails)

\* the put succeeded without copying and left the rows and blobs there were
SameAsBefore ==
    /\ dres'.status = "ok"
    /\ ~dres'.copied
    /\ blobs' = blobs
    /\ Stripped(files') = Stripped(files)
    /\ Stripped(thumbnails') = Stripped(thumbnails)

\* C25: a put that repeats an earlier one with the same bytes and the same
\* arguments, of a file or of a thumbnail, succeeds, does not copy the
\* bytes again and leaves the same rows and blobs, cached_at excepted.
C25_PutIdempotent ==
    [][/\ \A b \in Contents, f \in Filenames, v \in PutVariants :
              (RepeatsFilePut(b, f, v) /\ PutFile(b, f, v)) => SameAsBefore
       /\ \A b \in ThumbnailContents, f \in ThumbnailFilenames,
             o \in OwnerIds :
              (RepeatsThumbnailPut(b, f, o) /\ PutThumbnail(b, f, o))
                  => SameAsBefore
      ]_<< clockVars, downloadVars >>

\* C26: thumbnail round trip: while a row stored by put_thumbnail for a
\* video has not expired and its file is on disk,
\* get_thumbnail_by_video_id of that video is a hit.
C26_ThumbnailRoundTrip ==
    \A i \in 1 .. Len(thumbnails) :
        (FileLive(thumbnails[i]) /\ thumbnails[i].relative_path \in blobs)
            => GetThumbnailByVideoId(thumbnails[i].video_id) # << >>

\* a step of DownloadCache::clean that returns Ok
DownloadCleanOk ==
    /\ DownloadClean \/ DownloadCleanPanic \/ DownloadCleanWrapped
    /\ dres'.status = "ok"

\* the row is older than the ttl allows: cached_at < now - ttl
Outdated(row) == row.cached_at < now - download_ttl

\* clean has removed the outdated rows of this table and their files, and
\* has left the other rows and their files as they were
Cleaned(before, after) ==
    /\ \A i \in 1 .. Len(after) : ~Outdated(after[i])
    /\ \A i \in 1 .. Len(before) :
           IF Outdated(before[i])
           THEN before[i].relative_path \notin blobs'
           ELSE /\ \E j \in 1 .. Len(after) : after[j] = before[i]
                /\ before[i].relative_path \in blobs
                       <=> before[i].relative_path \in blobs'

\* C27: after clean returns Ok, no row with cached_at < now - ttl is left
\* in table files or in table thumbnails, the file of every removed row
\* is gone, and the rows with cached_at >= now - ttl and their files are
\* untouched.
C27_CleanRemovesExpired ==
    [][DownloadCleanOk =>
           Cleaned(files, files') /\ Cleaned(thumbnails, thumbnails')
      ]_<< clockVars, downloadVars >>

\* a row cached at t0 is read at most ttl - 1 seconds later
WithinTtl(row, ttl) == now <= row.cached_at + ttl - 1
\* a row cached at t0 is read at least ttl + 1 seconds later
PastTtl(row, ttl) == now >= row.cached_at + ttl + 1

\* the TTL of MetadataCache.get and get_by_id: a row within the TTL is
\* returned under its url and under its id, a row past it is not
VideoTtlExpiry ==
    \A i \in 1 .. Len(videos) :
        LET row == videos[i]
        IN  /\ WithinTtl(row, video_ttl) =>
                   /\ Get(row.url) = << row.video_json >>
                   /\ GetById(row.id) = << row.video_json >>
            /\ PastTtl(row, video_ttl) =>
                   /\ Get(row.url) # << row.video_json >>
                   /\ GetById(row.id) = << >>

\* the TTL of the getters of table files, for the rows whose file is on
\* disk
FileTtlExpiry ==
    \A i \in 1 .. Len(files) :
        LET row == files[i]
            owned == row.video_id # << >>
        IN  /\ (WithinTtl(row, download_ttl) /\ row.relative_path \in blobs) =>
                   /\ GetByHash(row.id) = << row >>
                   /\ (owned /\ row.format_id # << >>) =>
                          GetByVideoAndFormat(row.video_id[1],
                                              row.format_id[1]) # << >>
                   /\ owned =>
                          GetByVideoAndPreferences(row.video_id[1],
                                                   row.video_quality) # << >>
            /\ PastTtl(row, download_ttl) =>
                   /\ GetByHash(row.id) = << >>
                   /\ (owned /\ row.format_id # << >>) =>
                          GetByVideoAndFormat(row.video_id[1],
                                              row.format_id[1]) # << row >>
                   /\ owned =>
                          GetByVideoAndPreferences(row.video_id[1],
                                                   row.video_quality)
                              # << row >>

\* the TTL of the thumbnail getter, for the rows whose file is on disk
ThumbnailTtlExpiry ==
    \A i \in 1 .. Len(thumbnails) :
        LET row == thumbnails[i]
        IN  /\ (WithinTtl(row, download_ttl) /\ row.relative_path \in blobs) =>
                   GetThumbnailByVideoId(row.video_id) # << >>
            /\ PastTtl(row, download_ttl) =>
                   GetThumbnailByVideoId(row.video_id) = << >>

\* C28: with ttl T, an entry cached at t0 is a hit for a read at any t
\* with t0 <= t <= t0 + T - 1 and a miss for a read at any
\* t >= t0 + T + 1, in get and get_by_id of the VideoCache and in every
\* getter of the DownloadCache.
C28_TtlExpiry == VideoTtlExpiry /\ FileTtlExpiry /\ ThumbnailTtlExpiry

\* ------------------------------------------------- the reads of both caches
\* both constructors, lines 241-278 and 515-583, over a cache directory
\* that has a directory files
CacheReadsInit ==
    /\ ManagerParked
    /\ RangesParked
    /\ FetcherParked
    /\ now = 0
    /\ overflow_checks \in BOOLEAN
    /\ video_ttl \in {0, 1}
    /\ videos = << >>
    /\ video_poisoned = FALSE
    /\ lastPut = [u \in Urls |-> << >>]
    /\ vres = NoResult
    /\ PutsParked
    /\ download_ttl \in {0, 1}
    /\ files_dir = TRUE
    /\ blobs = {}
    /\ files = << >>
    /\ thumbnails = << >>
    /\ download_poisoned = FALSE
    /\ dres = NoDownloadResult

\* a read of the VideoCache: get or get_by_id
VideoRead ==
    \/ \E url \in Urls : VideoGet(url)
    \/ \E id \in VideoIds : VideoGetById(id)

\* a read of the DownloadCache: one of its four getters
DownloadRead ==
    \/ \E h \in Hashes : DownloadGetByHash(h)
    \/ \E o \in OwnerIds, f \in FormatIds : DownloadGetByVideoAndFormat(o, f)
    \/ \E o \in OwnerIds : DownloadGetThumbnailByVideoId(o)
    \/ \E o \in OwnerIds, q \in Qualities :
           DownloadGetByVideoAndPreferences(o, q)

\* one entry is put into each cache and read any number of times while
\* the clock runs
CacheReadsNext ==
    \/ VideoPut("k1", [id |-> "a", title |-> "t1"])
    \/ \E v \in PutVariants :
           PutFile("x", [stem |-> "a", ext |-> "mp4"], v)
    \/ PutThumbnail("x", [stem |-> "t", ext |-> "jpg"], "v1")
    \/ VideoRead
    \/ DownloadRead
    \/ VideoTick

SpecCacheReads ==
    CacheReadsInit /\ [][CacheReadsNext]_<< videoVars, downloadVars >>

\* C31: no sliding expiry: a read of either cache, hit or miss, leaves
\* every row of every table with its cached_at, every blob, the ttl and
\* the clock as they were.
C31_ReadsChangeNothing ==
    [][(VideoRead \/ DownloadRead) =>
           UNCHANGED << videos, files, thumbnails, blobs, video_ttl,
                        download_ttl, now >>
      ]_<< videoVars, downloadVars >>

\* both caches have answered a read with a hit, a second after the
\* entries were stored
C31_Witness ==
    /\ vres.op \in {"get", "get_by_id"}
    /\ vres.video # << >>
    /\ dres.branch = "hit"
    /\ now = 1
    /\ \A i \in 1 .. Len(videos) : videos[i].cached_at = 0
    /\ \A i \in 1 .. Len(files) : files[i].cached_at = 0

\* some row of the query has not expired and has its file on disk
SomeLive(rows) == \E i \in 1 .. Len(rows) : rows[i] \in LiveEntries

\* C40: lookup completeness: get_by_video_and_format and
\* get_by_video_and_preferences return a hit whenever a row matching the
\* query is within its TTL and has its file on disk, even if another
\* matching row has expired or lost its file.
C40_LookupComplete ==
    /\ \A o \in OwnerIds, f \in FormatIds :
           SomeLive(RowsByVideoAndFormat(o, f)) =>
               GetByVideoAndFormat(o, f) # << >>
    /\ \A o \in OwnerIds, q \in Qualities :
           SomeLive(RowsByVideoAndPreferences(o, q)) =>
               GetByVideoAndPreferences(o, q) # << >>

\* ------------------------------------------ concurrent calls of put_file
\* the filename and the variant the concurrent puts declare
PutFilename == [stem |-> "a", ext |-> "mp4"]
PutVariant ==
    [video_id |-> << "v1" >>, format_id |-> << "f1" >>,
     video_quality |-> << "best" >>]

\* line 718-719: the dest_path of the put of task p
DestPath(p) == FilePath(Sha256(put_bytes[p]), Extension(PutFilename))

\* lines 701-719: the hash, the metadata and the destination path
PutStart(p, bytes) ==
    /\ put_pc[p] = "idle"
    /\ put_pc' = [put_pc EXCEPT ![p] = "check"]
    /\ put_bytes' = [put_bytes EXCEPT ![p] = bytes]
    /\ UNCHANGED << clockVars, downloadVars >>
    /\ UNCHANGED << vars, rangeVars, fetchVars, video_ttl, videos,
                    video_poisoned, lastPut, vres >>

\* line 722: if !dest_path.exists()
PutExists(p) ==
    /\ put_pc[p] = "check"
    /\ put_pc' = [put_pc EXCEPT ![p] =
                     IF DestPath(p) \in blobs THEN "insert" ELSE "copy"]
    /\ UNCHANGED << put_bytes, clockVars, downloadVars >>
    /\ UNCHANGED << vars, rangeVars, fetchVars, video_ttl, videos,
                    video_poisoned, lastPut, vres >>

\* line 723: tokio::fs::copy creates (or truncates) the destination, or
\* fails when the directory files is missing
PutCopyOpen(p) ==
    /\ put_pc[p] = "copy"
    /\ IF files_dir
       THEN /\ blobs' = blobs \cup {DestPath(p)}
            /\ put_pc' = [put_pc EXCEPT ![p] = "copying"]
       ELSE /\ blobs' = blobs
            /\ put_pc' = [put_pc EXCEPT ![p] = "failed"]
    /\ UNCHANGED << put_bytes, clockVars, download_ttl, files_dir, files,
                    thumbnails, download_poisoned, dres >>
    /\ UNCHANGED << vars, rangeVars, fetchVars, video_ttl, videos,
                    video_poisoned, lastPut, vres >>

\* line 723: the copy has written the last byte
PutCopyDone(p) ==
    /\ put_pc[p] = "copying"
    /\ put_pc' = [put_pc EXCEPT ![p] = "insert"]
    /\ UNCHANGED << put_bytes, clockVars, downloadVars >>
    /\ UNCHANGED << vars, rangeVars, fetchVars, video_ttl, videos,
                    video_poisoned, lastPut, vres >>

\* lines 727-784: the row is stored under the connection lock
PutInsert(p) ==
    /\ put_pc[p] = "insert"
    /\ files' = ReplaceFile(files,
          CachedFile(Sha256(put_bytes[p]), Extension(PutFilename), PutVariant))
    /\ put_pc' = [put_pc EXCEPT ![p] = "done"]
    /\ UNCHANGED << put_bytes, clockVars, download_ttl, files_dir, blobs,
                    thumbnails, download_poisoned, dres >>
    /\ UNCHANGED << vars, rangeVars, fetchVars, video_ttl, videos,
                    video_poisoned, lastPut, vres >>

ConcurrentPutNext ==
    \/ \E p \in PutTasks, b \in Contents : PutStart(p, b)
    \/ \E p \in PutTasks : PutExists(p)
    \/ \E p \in PutTasks : PutCopyOpen(p)
    \/ \E p \in PutTasks : PutCopyDone(p)
    \/ \E p \in PutTasks : PutInsert(p)
    \/ \E h \in Hashes : DownloadGetByHash(h)
    \/ \E o \in OwnerIds, f \in FormatIds : DownloadGetByVideoAndFormat(o, f)
    \/ \E o \in OwnerIds, q \in Qualities :
           DownloadGetByVideoAndPreferences(o, q)
    \/ \E path \in AllPaths : BlobLost(path)

SpecConcurrentPut ==
    DownloadCacheInit
        /\ [][ConcurrentPutNext]_<< clockVars, downloadVars, putVars >>

\* a copy into this path is under way: its bytes are not all there
Incomplete(path) ==
    \E p \in PutTasks : put_pc[p] = "copying" /\ DestPath(p) = path

\* C39: a hit never exposes an incomplete blob: whenever a getter returns
\* an entry, no copy into the file of that entry is under way, for every
\* interleaving of concurrent puts and gets.
C39_HitIsComplete ==
    \A rows \in GetterQueries :
        FirstHit(rows) # << >> =>
            ~Incomplete(FirstHit(rows)[1].relative_path)

\* ids whose stored status is Downloading
DownloadingIds == {id \in Ids : statuses[id] = "Downloading"}

\* the permit acquired at line 419 for the task id is still owned: by the
\* spawned transfer (_permit, line 498) that has neither ended nor been
\* dropped
PermitHeldFor(id) == xfer[id] \in Live

\* C36: whenever the status stored for a task is Downloading, a semaphore
\* permit is held on that task's behalf, and so the number of ids whose
\* status is Downloading never exceeds max_concurrent_downloads, also
\* across a cancel of an in-flight task.
C36_DownloadingHoldsPermit ==
    /\ \A id \in DownloadingIds : PermitHeldFor(id)
    /\ Cardinality(DownloadingIds) <= max_concurrent_downloads

\* ------------------------------------------------ scheduling of the tasks
\* a step of a consumer loop, a tokio task (line 416)
LoopStep ==
    \E l \in Ids : \/ LoopAcquire(l)
                   \/ LoopPop(l)
                   \/ LoopMark(l)
                   \/ LoopStore(l)
                   \/ LoopCheck(l)

\* a step of an enqueue call that has taken its id
EnqueueStep == \E id \in Ids : EnqueuePush(id) \/ EnqueueStatus(id)

\* a step of a spawned transfer (line 496): it ends, or is dropped once
\* aborted
TransferStep ==
    \E id \in Ids : \/ \E res \in {"Ok", "Err"} : TransferFinish(id, res)
                    \/ TransferRemove(id)
                    \/ TransferTick(id)
                    \/ TransferDrop(id)

\* a step of a task the runtime has to poll, or of an enqueue call under way
Progress == LoopStep \/ EnqueueStep \/ TransferStep

\* the runtime polls a task that can make progress, a caller that began an
\* enqueue call polls it to its end, and every transfer ends or is dropped;
\* nothing is assumed of the cancel calls
Fairness == WF_vars(Progress)

SpecFair == Init /\ [][Next]_vars /\ Fairness

\* the task id has been handed to a Fetcher (lines 452-501)
Handed(id) == xfer[id] # "none"

\* a step that hands the task id to a Fetcher
Hands(id) == xfer[id] # "running" /\ xfer'[id] = "running"

\* a cancel call has removed the task id from the queue (lines 359-366)
Removed(id) == id \in canceledQueued \/ (cpc = "markQ" /\ cid = id)

\* C34, at most once: a task is handed to a Fetcher only if it never was
\* before, and no two consumer loops hold the same popped task.
HandedAtMostOnce ==
    /\ [][\A id \in Ids : Hands(id) => ~Handed(id)]_vars
    /\ [](\A l1, l2 \in Ids : (l1 # l2 /\ cur[l1] = cur[l2]) => cur[l1] = -1)

\* C34, at least once: a task whose enqueue call returned is eventually
\* handed to a Fetcher, unless cancel removed it from the queue.
HandedUnlessCanceled ==
    \A id \in Ids : (epc[id] = "done") ~> (Handed(id) \/ Removed(id))

\* C34, ids: the id an enqueue call takes under the id lock was never
\* taken before and is greater than every id taken before.
IdsIncrease ==
    [][next_id' # next_id =>
          /\ next_id' = next_id + 1
          /\ epc[next_id] = "none" /\ epc'[next_id] = "push"
          /\ \A i \in Ids : epc[i] # "none" => i < next_id]_vars

\* C34: each enqueued task is handed to a Fetcher at most once, for every
\* interleaving of the consumer loops that pop the queue, and exactly once
\* if it is never canceled; the ids returned by enqueue calls are pairwise
\* distinct and strictly increasing in the order the calls take the id
\* lock.
C34_HandedOnceIdsIncrease ==
    HandedAtMostOnce /\ HandedUnlessCanceled /\ IdsIncrease

\* two consumer loops have each popped a task and both enqueue calls were
\* still under way when the second id was taken
C34_Witness ==
    /\ \E l1, l2 \in Ids : /\ l1 # l2
                           /\ lpc[l1] = "mark" /\ lpc[l2] = "mark"
                           /\ cur[l1] # cur[l2]
    /\ next_id = MaxTasks

\* a consumer loop is running, or an enqueue call that has pushed its task
\* is about to spawn one (line 253)
ConsumerPending == ActiveLoops # {} \/ \E id \in Ids : epc[id] = "status"

\* C35: with max_concurrent_downloads >= 1, and every transfer eventually
\* finishing or being dropped, every task in the queue is eventually popped
\* and handed to a Fetcher unless cancel removes it; and in no reachable
\* state does a task sit in the queue with no consumer loop left, or about
\* to be spawned, to pop it.
C35_NoStrandedTask ==
    /\ [](queue # {} => ConsumerPending)
    /\ \A id \in Ids : (id \in queue) ~> (Handed(id) \/ Removed(id))

\* every enqueue call has returned, the only permit is taken by a transfer
\* and the one consumer loop left waits for it with a task still queued
C35_Witness ==
    /\ max_concurrent_downloads = 1
    /\ \A id \in Ids : epc[id] = "done"
    /\ queue # {}
    /\ semaphore = 0
    /\ Cardinality(ActiveLoops) = 1
    /\ \E l \in Ids : lpc[l] = "acquire"
    /\ InFlight # {}

\* the destination argument of the enqueue call of task id (line 234),
\* which the manager only hands on to fetch_asset (lines 492, 501): here
\* every task is enqueued with the one destination
Destination(id) == "out.mp4"

\* transfers whose fetch_asset call (line 501) is under way
Fetching == {id \in Ids : xfer[id] = "running"}

\* C33: two tasks enqueued with the same destination are never in flight
\* together, so the destination file and its .parts sidecar are written by
\* a single Fetcher invocation at any moment.
C33_SameDestinationExclusive ==
    \A a, b \in Fetching : Destination(a) = Destination(b) => a = b

\* the same on a manager that runs one download at a time
SerialManagerExclusive ==
    max_concurrent_downloads = 1 => C33_SameDestinationExclusive

\* a step in which the Fetcher calls the manager's progress closure of the
\* task id (lines 462-488)
Ticks(id) == id \notin invoked /\ id \in invoked'

\* C32: while the task id is being downloaded, after a progress tick of its
\* Fetcher the status map holds Downloading for id (with the pair of the
\* tick), and the transfer is still running towards its terminal state.
\* The closure writes the pair and calls the caller's callback only after
\* its blocking_lock (lines 464, 480), so a tick that leaves the transfer
\* running is one whose write and callback were made.
C32_TickKeepsTransferRunning ==
    [][\A id \in Ids :
          Ticks(id) => (statuses'[id] = "Downloading" /\ xfer'[id] \in Live)
      ]_vars

\* the destination holds, over the whole byte range of segment i, the
\* bytes the server serves for that range
SegmentHolds(f, i) ==
    \A k \in (ranges[i + 1][1] + 1) .. (ranges[i + 1][2] + 1) :
        k <= Len(f) /\ f[k] = RemoteBlock(remoteVer, k)

\* a step that flags segment i as downloaded and appends it to .parts
\* (lines 358-374)
Records(i) ==
    /\ i \in DOMAIN spc
    /\ i \notin downloaded_segments
    /\ i \in downloaded_segments'
    /\ i \in parts'

\* C37: a segment index is appended to .parts, and the segment counted as
\* complete, only when a ranged GET for it succeeded and its full byte
\* range was written to the destination, in this run (a GET was sent for
\* it) or in an earlier one (the destination holds the whole range); the
\* probe for non-zero bytes never by itself causes a segment to be
\* recorded as complete.
C37_PartsOnlyAfterFullWrite ==
    [][\A i \in 0 .. MaxSize : Records(i) => SegmentHolds(dest, i)
      ]_fetchVars

\* the same for the segments this call sent a GET for
RecordedAfterGetHolds ==
    [][\A i \in 0 .. MaxSize :
          (Records(i) /\ gets[i] > 0) => SegmentHolds(dest, i)]_fetchVars

\* a step of a segmented fetch in which the progress callback is invoked
\* with other arguments than at its last invocation
Invokes == fpath' = "segmented" /\ cbLast' # << >> /\ cbLast' # cbLast

\* C38: within one segmented fetch (the server returning exactly the
\* requested range of each segment), the downloaded values passed to the
\* progress callback never decrease from one invocation to the next and
\* never exceed total, for every interleaving of the segment tasks.
C38_ProgressMonotoneBounded ==
    [][Invokes =>
          /\ cbLast'[1] <= cbLast'[2]
          /\ cbLast'[2] = total_bytes
          /\ cbLast # << >> => cbLast[1] <= cbLast'[1]
      ]_fetchVars

\* a resumed fetch: the counter was seeded from .parts, one segment has
\* reported its bytes and another one is still waiting for its body
C38_Witness ==
    /\ fpath = "segmented"
    /\ startParts # {}
    /\ SeedBytes(ranges, downloaded_segments \cap startParts, Len(ranges)) > 0
    /\ cbLast # << >>
    /\ cbLast[1] < cbLast[2]
    /\ \E i \in DOMAIN spc : spc[i] = "net"

\* a fresh fetch: two segments have reported their bytes while a third
\* one is still waiting for its body
C38_Interleaved ==
    /\ fpath = "segmented"
    /\ cbLast # << >>
    /\ cbLast[1] > DefaultSegmentSize
    /\ cbLast[1] < cbLast[2]
    /\ \E i \in DOMAIN spc : spc[i] = "net"

=============================================================================
